---- MODULE Spec2Model ----
(***************************************************************************)
(* Verification model of the docpilot workspace core: the invitation       *)
(* lifecycle (workspace_invitations / collaborators tables and the four    *)
(* client accept paths), the MarkdownEditor reconciliation of file change  *)
(* notifications, the file_versions log, and the role checks.              *)
(***************************************************************************)
EXTENDS Integers, Sequences, FiniteSets, TLC

VARIABLES
    now,            \* store / client wall clock, in days (invitation part)
    ticks,          \* number of clock advances so far
    invitations,    \* rows of public.workspace_invitations
    collaborators,  \* rows of public.collaborators
    nextInvId,      \* next fresh uuid for workspace_invitations.id
    sess,           \* per browser session: signed-in user, component state, position
    lastDone,       \* the most recently completed accept / decline call
    failures,       \* store errors injected so far
    files,          \* public.files: content of each file row
    file_versions,  \* rows of public.file_versions
    versionSeq,     \* store clock behind file_versions.created_at
    clock,          \* Date.now() of the clients, in seconds
    ed,             \* per browser session: EditorView / MarkdownEditor state
    docDone,        \* the most recently completed editor step
    hist,           \* history: version rows created per file, histories cleared
    acl,            \* the most recent permission evaluation
    workspaces,     \* rows of public.workspaces
    chat_messages,  \* rows of public.chat_messages
    workspace_activity,  \* rows of public.workspace_activity
    workspace_requests,  \* rows of public.workspace_requests
    del,            \* the deleteWorkspace / deleteFile call in flight
    delDone,        \* the result of the most recently returned delete call
    users,          \* ids of the rows of public.users
    fx,             \* per browser session: the FileExplorer call in flight and its workspace list
    fxDone,         \* the most recently completed FileExplorer call
    diffView        \* GitStyleDiff: its two props and the diff lines it renders

invVars == <<now, ticks, invitations, collaborators, nextInvId, sess, lastDone, failures>>
docVars == <<files, file_versions, versionSeq, clock, ed, docDone, hist>>
wsVars == <<workspaces, chat_messages, workspace_activity, workspace_requests, del, delDone, users,
           fx, fxDone, diffView>>
vars == <<invVars, docVars, acl, wsVars>>

(***************************************************************************)
(* Bounds of the model                                                     *)
(***************************************************************************)
MaxTicks == 1
MaxInvitations == 2
MaxFailures == 1

(***************************************************************************)
(* Fixed data: users (public.users), one workspace, browser sessions       *)
(***************************************************************************)
Users == {"alice", "bob"}
Sessions == {"s1", "s2"}
Roles == {"owner", "editor", "viewer"}
InviteRoles == {"editor"}

\* emails are character sequences so that case conversion is computed
UserEmail(u) == IF u = "alice" THEN <<"a", "l">> ELSE <<"b", "o">>
InviteEmailInputs == {<<"b", "o">>, <<"B", "o">>}     \* typed into the Invite Member dialog
ServiceEmailInputs == {<<"b", "o">>}                 \* passed to the invitation service

WorkspaceOwner(w) == IF w = "w2" THEN "bob" ELSE "alice"

InviteTtlDays == 7
TickSteps == {InviteTtlDays, InviteTtlDays + 1}

LowerChar(c) ==
    CASE c = "A" -> "a"
      [] c = "B" -> "b"
      [] c = "L" -> "l"
      [] c = "O" -> "o"
      [] OTHER -> c

ToLowerCase(e) == [k \in 1..Len(e) |-> LowerChar(e[k])]

\* supabase.from('users').select('id').eq('email', email).single()
UserIdByEmail(e) == {u \in users : UserEmail(u) = e}

(***************************************************************************)
(* Client-side snapshots of invitation rows                                *)
(***************************************************************************)
Snap(i) == [id |-> i.id, workspace_id |-> i.workspace_id,
            invitee_email |-> i.invitee_email, role |-> i.role]

NoInv == [id |-> 0, workspace_id |-> "none", invitee_email |-> <<>>, role |-> "none"]

\* record of the last completed call: what was called, on which invitation,
\* by whom, and what it reported
NoneDone == [op |-> "none", id |-> 0, user |-> "none", res |-> "none"]

IdleSess(u, list, page) ==
    [user |-> u, pc |-> "idle", op |-> "none", path |-> "none",
     inv |-> NoInv, list |-> list, page |-> page,
     email |-> <<>>, role |-> "none",
     wasCollab |-> FALSE, startPending |-> FALSE, prevOk |-> FALSE]

(***************************************************************************)
(* Store helpers                                                           *)
(***************************************************************************)
RowById(id) == {i \in invitations : i.id = id}

RowsByKey(w, e) == {i \in invitations : i.workspace_id = w /\ i.invitee_email = e}

\* the table without its UNIQUE (workspace_id, invitee_email) constraint
UniqueInvitationViolation_NoConstraint(w, e) == FALSE

\* UNIQUE (workspace_id, invitee_email) on workspace_invitations
UniqueInvitationViolation(w, e) == RowsByKey(w, e) # {}

\* UNIQUE (workspace_id, user_id) on collaborators
UniqueCollaboratorViolation(w, u) ==
    \E c \in collaborators : c.workspace_id = w /\ c.user_id = u

\* variant that never finds a row
IsCollaborator_Never(w, u) == FALSE

\* select('id').eq('workspace_id', w).eq('user_id', u).single()
IsCollaborator(w, u) ==
    \E c \in collaborators : c.workspace_id = w /\ c.user_id = u

\* column defaults of workspace_invitations
NewInvitation(id, w, inviter, e, r) ==
    [id |-> id, workspace_id |-> w, inviter_id |-> inviter, invitee_email |-> e,
     invitee_id |-> "null", role |-> r, status |-> "pending",
     invitation_token |-> id, expires_at |-> now + InviteTtlDays]

\* update({status, invitee_id}).eq('id', id): the row with that id, whatever its status
UpdateStatusById(id, st, uid) ==
    {IF i.id = id
        THEN [i EXCEPT !.status = st,
                       !.invitee_id = IF uid = "keep" THEN i.invitee_id ELSE uid]
        ELSE i : i \in invitations}


(***************************************************************************)
(* Files, file versions and the editor state of a session                  *)
(***************************************************************************)
MaxEdits == 2        \* keystroke events in a behaviour
MaxSaves == 2        \* saves started in a behaviour
MaxRestores == 1     \* restores started in a behaviour
MaxClock == 1        \* seconds the client clock advances
MaxSwitches == 1     \* changes from one open file to another in a behaviour

Files == {"f1"}
FileWorkspace(f) == IF f = "f2" THEN "w2" ELSE "w1"
Texts == {"A", "B"}
InitialText == "A"

\* Date.now() / 1000 when the behaviour starts
ClockStart == 1762000000
\* largest value of a Postgres INTEGER column
Int4Max == 2147483647
\* createVersion multiplies Date.now() (milliseconds) by 1000
HookVersionScale == 1000000

\* the content of a payload that carries none (undefined in the client)
NoContent == "undefined"

\* file.content || ''
OrEmpty(c) == IF c = NoContent THEN "" ELSE c

NoFile == [id |-> "none", workspace_id |-> "none", content |-> ""]
NoVersion == [id |-> 0, content |-> "", created_at |-> 0]
NoHandler == [id |-> "none", content |-> "", lastKnownContent |-> ""]
\* useState([]) of useFileHistory: no list fetched yet
NoVersions == [of |-> "none", rows |-> {}]
NoDocDone == [op |-> "none", sess |-> "none", ver |-> 0, res |-> "none"]

\* useState initial values of EditorView and MarkdownEditor: no file selected
InitEd ==
    [file |-> NoFile,
     content |-> "",
     originalContent |-> "",
     lastKnownContent |-> "",
     hasExternalChanges |-> FALSE,
     channels |-> {},
     inbox |-> <<>>,
     pc |-> "idle",
     saveFile |-> "none",
     saveContent |-> "",
     historyChannels |-> {},
     inflight |-> {},
     versions |-> NoVersions,
     selectedVersion |-> NoVersion,
     restoreInline |-> FALSE,
     atClick |-> [lastKnownContent |-> "", originalContent |-> ""]]

NoHist == [created |-> [f \in Files |-> <<>>],
           cleared |-> [f \in Files |-> FALSE],
           edits |-> 0,
           switches |-> 0,
           saves |-> 0,
           restores |-> 0,
           undecodable |-> 0]

NoAcl == [check |-> "none", user |-> "none", allowed |-> FALSE]

\* the editor part at rest
DocAtRest ==
    /\ files = [f \in Files |-> InitialText]
    /\ file_versions = {}
    /\ versionSeq = 0
    /\ clock = ClockStart
    /\ ed = [s \in Sessions |-> InitEd]
    /\ docDone = NoDocDone
    /\ hist = NoHist

(***************************************************************************)
(* Workspaces and their dependent tables                                   *)
(***************************************************************************)
\* workspace w1 of alice is the one the model works on; w2 of bob and its
\* file f2 are bystanders
AllWorkspaces == {"w1", "w2"}
AllFiles == {"f1", "f2"}

WorkspaceRow(w) == [id |-> w, owner_id |-> WorkspaceOwner(w)]
\* a row of chat_messages, workspace_activity or workspace_requests
ChildRow(k, w) == [id |-> k, workspace_id |-> w]

NoDel == [op |-> "none", user |-> "none", w |-> "none", f |-> "none",
          pc |-> "idle", fileIds |-> {}, steps |-> <<>>,
          retry |-> FALSE, clean |-> FALSE, calls |-> 0]
NoDelDone == [op |-> "none", user |-> "none", w |-> "none", f |-> "none",
              success |-> FALSE, step |-> "none", steps |-> <<>>,
              retry |-> FALSE, clean |-> FALSE]

\* the workspace part at rest: both workspaces exist, nothing else does
\* FileExplorer of a session: no call in flight, workspace list not loaded
NoFx == [pc |-> "idle", op |-> "none", w |-> "none", owned |-> {},
         toPopulate |-> {}, shown |-> {}, clean |-> TRUE, loads |-> 0]

NoFxDone == [op |-> "none", sess |-> "none", user |-> "none", w |-> "none",
             owned |-> {}, res |-> "none", clean |-> TRUE]

\* GitStyleDiff not mounted
NoDiffView == [pc |-> "unmounted", originalContent |-> <<>>, newContent |-> <<>>,
               diffLines |-> <<>>]

WsAtRest ==
    /\ workspaces = {WorkspaceRow(w) : w \in AllWorkspaces}
    /\ chat_messages = {}
    /\ workspace_activity = {}
    /\ workspace_requests = {}
    /\ del = NoDel
    /\ delDone = NoDelDone
    /\ users = Users
    /\ fx = [s \in Sessions |-> NoFx]
    /\ fxDone = NoFxDone
    /\ diffView = NoDiffView

(***************************************************************************)
(* Initial state: workspace w1 exists with its owner collaborator row, no  *)
(* invitation yet, every session signed in and idle.                       *)
(***************************************************************************)
SessionUsers ==
    {f \in [Sessions -> Users] : f["s1"] = "alice" \/ f["s2"] = "bob"}

InitInv ==
    /\ now = 0
    /\ ticks = 0
    /\ invitations = {}
    /\ collaborators = {[workspace_id |-> "w1", user_id |-> "alice", role |-> "owner"]}
    /\ nextInvId = 1
    /\ \E f \in SessionUsers : sess = [s \in Sessions |-> IdleSess(f[s], {}, NoInv)]
    /\ lastDone = NoneDone
    /\ failures = 0
    /\ DocAtRest
    /\ acl = NoAcl
    /\ WsAtRest

\* an injected store error consumes one unit of the failure budget
Inject(fail) ==
    IF fail THEN failures < MaxFailures /\ failures' = failures + 1
            ELSE failures' = failures

\* the call returns: toast shown, loading reset, locals gone
Finish(s, r, res, listAfter, pageAfter) ==
    /\ sess' = [sess EXCEPT ![s] = IdleSess(r.user, listAfter, pageAfter)]
    /\ lastDone' = [op |-> r.op, id |-> r.inv.id, user |-> r.user, res |-> res]

Goto(s, r, pc) ==
    /\ sess' = [sess EXCEPT ![s] = [r EXCEPT !.pc = pc]]
    /\ UNCHANGED lastDone

\* .eq('invitee_email', user.email).eq('status','pending').gt('expires_at', now)
PendingRowsFor(rows, u, t) ==
    {Snap(i) : i \in {j \in rows : /\ j.invitee_email = UserEmail(u)
                                   /\ j.status = "pending"
                                   /\ j.expires_at > t}}

\* locals and bookkeeping at the start of a call on invitation snap
Begin(r, op, path, snap) ==
    [r EXCEPT !.op = op, !.path = path, !.inv = snap,
              !.wasCollab = IsCollaborator(snap.workspace_id, r.user),
              !.startPending = \E i \in RowById(snap.id) : i.status = "pending",
              !.prevOk = /\ lastDone.op = "accept" /\ lastDone.id = snap.id
                         /\ lastDone.user = r.user /\ lastDone.res = "ok"]

(***************************************************************************)
(* fetchPendingInvitations (PendingInvitations / WorkspaceManagement), run  *)
(* when the main view mounts or refreshes; a session shows one route at a  *)
(* time, so the invite page's state is gone                                *)
(***************************************************************************)
FetchPendingInvitations(s) ==
    /\ sess[s].pc = "idle"
    /\ \/ sess[s].list # PendingRowsFor(invitations, sess[s].user, now)
       \/ sess[s].page # NoInv
    /\ sess' = [sess EXCEPT ![s].list = PendingRowsFor(invitations, sess[s].user, now),
                            ![s].page = NoInv]
    /\ UNCHANGED <<docVars, acl, wsVars, now, ticks, invitations, collaborators, nextInvId, lastDone, failures>>

(***************************************************************************)
(* InvitePage.fetchInvitation: resolve the token of the /invite/<token>    *)
(* link into the page's invitation state                                   *)
(***************************************************************************)
FetchInvitation(s, token) ==
    LET r == sess[s]
        rows == {i \in invitations : i.invitation_token = token /\ i.status = "pending"}
        b == Begin(r, "resolve", "page", [NoInv EXCEPT !.id = token])
    IN  /\ r.pc = "idle"
        /\ IF rows = {}
              THEN Finish(s, b, "not_found", {}, NoInv)
              ELSE LET i == CHOOSE x \in rows : TRUE
                   IN IF i.expires_at < now
                         THEN Finish(s, b, "expired", {}, NoInv)
                         ELSE Finish(s, b, "ok", {}, Snap(i))
        /\ UNCHANGED <<docVars, acl, wsVars, now, ticks, invitations, collaborators, nextInvId, failures>>

(***************************************************************************)
(* WorkspaceManagement.sendInvitation                                      *)
(***************************************************************************)
\* lowercases the typed email and looks for an existing collaborator
SendInvitation_CheckCollaborator(s, input, role) ==
    LET r == sess[s]
        email == ToLowerCase(input)
        b == [r EXCEPT !.op = "send", !.path = "wm",
                       !.inv = [NoInv EXCEPT !.workspace_id = "w1"],
                       !.email = email, !.role = role]
    IN  /\ r.pc = "idle"
        /\ r.user = WorkspaceOwner("w1")      \* the Invite Member dialog is rendered for isOwner
        /\ nextInvId <= MaxInvitations
        /\ IF \E u \in UserIdByEmail(email) : IsCollaborator("w1", u)
              THEN Finish(s, b, "already_member", r.list, r.page)
              ELSE Goto(s, b, "si_check")
        /\ UNCHANGED <<docVars, acl, wsVars, now, ticks, invitations, collaborators, nextInvId, failures>>

\* select * where workspace_id, invitee_email .single()
SendInvitation_CheckExisting(s) ==
    LET r == sess[s]
        rows == RowsByKey(r.inv.workspace_id, r.email)
    IN  /\ r.pc = "si_check"
        /\ IF rows = {}
              THEN Goto(s, r, "si_insert")
              ELSE LET i == CHOOSE x \in rows : TRUE
                   IN IF i.status = "pending" /\ i.expires_at > now
                         THEN Finish(s, [r EXCEPT !.inv = Snap(i)], "duplicate", r.list, r.page)
                         ELSE Goto(s, [r EXCEPT !.inv = Snap(i)], "si_delete")
        /\ UNCHANGED <<docVars, acl, wsVars, now, ticks, invitations, collaborators, nextInvId, failures>>

\* delete the old (expired, declined, accepted) row by id
SendInvitation_DeleteOld(s) ==
    LET r == sess[s]
    IN  /\ r.pc = "si_delete"
        /\ invitations' = invitations \ RowById(r.inv.id)
        /\ Goto(s, r, "si_insert")
        /\ UNCHANGED <<docVars, acl, wsVars, now, ticks, collaborators, nextInvId, failures>>

\* variant that takes the row back when the email was not sent
SendInvitation_Insert_Rollback(s, emailSent) ==
    LET r == sess[s]
        w == r.inv.workspace_id
    IN  /\ r.pc = "si_insert"
        /\ IF UniqueInvitationViolation(w, r.email)
              THEN /\ emailSent
                   /\ Finish(s, r, "error", r.list, r.page)
                   /\ UNCHANGED <<invitations, nextInvId>>
              ELSE LET i == NewInvitation(nextInvId, w, r.user, r.email, r.role)
                   IN /\ invitations' = IF emailSent THEN invitations \cup {i} ELSE invitations
                      /\ nextInvId' = nextInvId + 1
                      /\ Finish(s, [r EXCEPT !.inv = Snap(i)],
                                IF emailSent THEN "ok" ELSE "ok_email_failed", r.list, r.page)
        /\ UNCHANGED <<docVars, acl, wsVars, now, ticks, collaborators, failures>>

\* insert the new row (the store rejects a second row for (workspace, email)),
\* then EmailService.sendInvitationEmail: the row stays whatever its outcome
SendInvitation_Insert(s, emailSent) ==
    LET r == sess[s]
        w == r.inv.workspace_id
    IN  /\ r.pc = "si_insert"
        /\ IF UniqueInvitationViolation(w, r.email)
              THEN /\ emailSent
                   /\ Finish(s, r, "error", r.list, r.page)
                   /\ UNCHANGED <<invitations, nextInvId>>
              ELSE LET i == NewInvitation(nextInvId, w, r.user, r.email, r.role)
                   IN /\ invitations' = invitations \cup {i}
                      /\ nextInvId' = nextInvId + 1
                      /\ Finish(s, [r EXCEPT !.inv = Snap(i)],
                                IF emailSent THEN "ok" ELSE "ok_email_failed", r.list, r.page)
        /\ UNCHANGED <<docVars, acl, wsVars, now, ticks, collaborators, failures>>

(***************************************************************************)
(* invitation service createInvitation: a bare insert                      *)
(***************************************************************************)
CreateInvitation(s, input, role) ==
    LET r == sess[s]
        b == [r EXCEPT !.op = "create", !.path = "svc",
                       !.inv = [NoInv EXCEPT !.workspace_id = "w1"]]
    IN  /\ r.pc = "idle"
        /\ nextInvId <= MaxInvitations
        /\ IF UniqueInvitationViolation("w1", input)
              THEN /\ Finish(s, b, "error", r.list, r.page)
                   /\ UNCHANGED <<invitations, nextInvId>>
              ELSE LET i == NewInvitation(nextInvId, "w1", r.user, input, role)
                   IN /\ invitations' = invitations \cup {i}
                      /\ nextInvId' = nextInvId + 1
                      /\ Finish(s, [b EXCEPT !.inv = Snap(i)], "ok",
                                r.list, r.page)
        /\ UNCHANGED <<docVars, acl, wsVars, now, ticks, collaborators, failures>>

(***************************************************************************)
(* Collaborator insert shared by the accept paths.  tolerant = the path    *)
(* treats error code 23505 (unique violation) as "already a member".       *)
(***************************************************************************)
InsertCollaborator(s, r, fail, tolerant, listAfter, pageAfter) ==
    LET w == r.inv.workspace_id
    IN  IF fail
           THEN /\ UNCHANGED collaborators
                /\ Finish(s, r, "error", r.list, r.page)
           ELSE IF UniqueCollaboratorViolation(w, r.user)
                   THEN /\ UNCHANGED collaborators
                        /\ IF tolerant
                              THEN Finish(s, r, "ok", listAfter, pageAfter)
                              ELSE Finish(s, r, "error", r.list, r.page)
                   ELSE /\ collaborators' = collaborators \cup
                               {[workspace_id |-> w, user_id |-> r.user, role |-> r.inv.role]}
                        /\ Finish(s, r, "ok", listAfter, pageAfter)

\* update({status:'accepted', invitee_id: user.id}).eq('id', id)
UpdateAccepted(s, b, next) ==
    /\ invitations' = UpdateStatusById(b.inv.id, "accepted", b.user)
    /\ Goto(s, b, next)

(***************************************************************************)
(* PendingInvitations.acceptInvitation                                     *)
(***************************************************************************)
AcceptPI_Update(s, snap) ==
    /\ sess[s].pc = "idle"
    /\ snap \in sess[s].list
    /\ UpdateAccepted(s, Begin(sess[s], "accept", "pi", snap), "pi_insert")
    /\ UNCHANGED <<docVars, acl, wsVars, now, ticks, collaborators, nextInvId, failures>>

AcceptPI_Insert(s, fail) ==
    LET r == sess[s]
    IN  /\ r.pc = "pi_insert"
        /\ Inject(fail)
        /\ InsertCollaborator(s, r, fail, TRUE, r.list \ {r.inv}, r.page)
        /\ UNCHANGED <<docVars, acl, wsVars, now, ticks, invitations, nextInvId>>

(***************************************************************************)
(* WorkspaceManagement.acceptInvitation                                    *)
(***************************************************************************)
AcceptWM_Update(s, snap) ==
    /\ sess[s].pc = "idle"
    /\ snap \in sess[s].list
    /\ UpdateAccepted(s, Begin(sess[s], "accept", "wm", snap), "wm_fetch")
    /\ UNCHANGED <<docVars, acl, wsVars, now, ticks, collaborators, nextInvId, failures>>

\* select('workspace_id, role').eq('id', invitationId).single()
AcceptWM_Fetch(s) ==
    LET r == sess[s]
        rows == RowById(r.inv.id)
    IN  /\ r.pc = "wm_fetch"
        /\ IF rows = {}
              THEN Finish(s, r, "error", r.list, r.page)
              ELSE LET i == CHOOSE x \in rows : TRUE
                   IN Goto(s, [r EXCEPT !.inv = [r.inv EXCEPT !.workspace_id = i.workspace_id,
                                                               !.role = i.role]], "wm_insert")
        /\ UNCHANGED <<docVars, acl, wsVars, now, ticks, invitations, collaborators, nextInvId, failures>>

\* every collaborator error is thrown; success refreshes the pending list
AcceptWM_Insert(s, fail) ==
    LET r == sess[s]
    IN  /\ r.pc = "wm_insert"
        /\ Inject(fail)
        /\ InsertCollaborator(s, r, fail, FALSE,
                              PendingRowsFor(invitations, r.user, now), r.page)
        /\ UNCHANGED <<docVars, acl, wsVars, now, ticks, invitations, nextInvId>>

(***************************************************************************)
(* InvitePage.acceptInvitation                                             *)
(***************************************************************************)
AcceptIP_Update(s) ==
    LET r == sess[s]
        b == Begin(r, "accept", "page", r.page)
    IN  /\ r.pc = "idle"
        /\ r.page # NoInv
        /\ IF r.page.invitee_email # UserEmail(r.user)
              THEN /\ Finish(s, b, "email_mismatch", r.list, r.page)
                   /\ UNCHANGED invitations
              ELSE UpdateAccepted(s, b, "ip_insert")
        /\ UNCHANGED <<docVars, acl, wsVars, now, ticks, collaborators, nextInvId, failures>>

\* success navigates away from the page
AcceptIP_Insert(s, fail) ==
    LET r == sess[s]
    IN  /\ r.pc = "ip_insert"
        /\ Inject(fail)
        /\ InsertCollaborator(s, r, fail, TRUE, r.list, NoInv)
        /\ UNCHANGED <<docVars, acl, wsVars, now, ticks, invitations, nextInvId>>

(***************************************************************************)
(* invitation service acceptInvitation(token, userId)                      *)
(***************************************************************************)
\* getInvitationByToken: pending row with the token, not past expires_at
AcceptSvc_Get(s, token) ==
    LET r == sess[s]
        rows == {i \in invitations : i.invitation_token = token /\ i.status = "pending"}
    IN  /\ r.pc = "idle"
        /\ IF rows = {}
              THEN Finish(s, Begin(r, "accept", "svc", [NoInv EXCEPT !.id = token]),
                          "not_found", r.list, r.page)
              ELSE LET i == CHOOSE x \in rows : TRUE
                       b == Begin(r, "accept", "svc", Snap(i))
                   IN IF i.expires_at < now
                         THEN Finish(s, b, "expired", r.list, r.page)
                         ELSE Goto(s, b, "svc_check")
        /\ UNCHANGED <<docVars, acl, wsVars, now, ticks, invitations, collaborators, nextInvId, failures>>

AcceptSvc_Check(s) ==
    LET r == sess[s]
    IN  /\ r.pc = "svc_check"
        /\ IF IsCollaborator(r.inv.workspace_id, r.user)
              THEN Finish(s, r, "already_member", r.list, r.page)
              ELSE Goto(s, r, "svc_insert")
        /\ UNCHANGED <<docVars, acl, wsVars, now, ticks, invitations, collaborators, nextInvId, failures>>

AcceptSvc_Insert(s, fail) ==
    LET r == sess[s]
        w == r.inv.workspace_id
    IN  /\ r.pc = "svc_insert"
        /\ Inject(fail)
        /\ IF fail \/ UniqueCollaboratorViolation(w, r.user)
              THEN /\ UNCHANGED collaborators
                   /\ Finish(s, r, "error", r.list, r.page)
              ELSE /\ collaborators' = collaborators \cup
                          {[workspace_id |-> w, user_id |-> r.user, role |-> r.inv.role]}
                   /\ Goto(s, r, "svc_update")
        /\ UNCHANGED <<docVars, acl, wsVars, now, ticks, invitations, nextInvId>>

\* an update error is logged and ignored
AcceptSvc_Update(s, fail) ==
    LET r == sess[s]
    IN  /\ r.pc = "svc_update"
        /\ Inject(fail)
        /\ invitations' = IF fail THEN invitations
                                  ELSE UpdateStatusById(r.inv.id, "accepted", r.user)
        /\ Finish(s, r, "ok", r.list, r.page)
        /\ UNCHANGED <<docVars, acl, wsVars, now, ticks, collaborators, nextInvId>>

(***************************************************************************)
(* declineInvitation (PendingInvitations, WorkspaceManagement, InvitePage) *)
(***************************************************************************)
\* update({status:'declined'}).eq('id', id)
DeclineUpdate(s, b, listAfter, pageAfter) ==
    /\ invitations' = UpdateStatusById(b.inv.id, "declined", "keep")
    /\ Finish(s, b, "ok", listAfter, pageAfter)

DeclinePI(s, snap) ==
    LET r == sess[s]
    IN  /\ r.pc = "idle"
        /\ snap \in r.list
        /\ DeclineUpdate(s, Begin(r, "decline", "pi", snap), r.list \ {snap}, r.page)
        /\ UNCHANGED <<docVars, acl, wsVars, now, ticks, collaborators, nextInvId, failures>>

DeclineWM(s, snap) ==
    LET r == sess[s]
    IN  /\ r.pc = "idle"
        /\ snap \in r.list
        /\ DeclineUpdate(s, Begin(r, "decline", "wm", snap),
                         PendingRowsFor(UpdateStatusById(snap.id, "declined", "keep"),
                                        r.user, now), r.page)
        /\ UNCHANGED <<docVars, acl, wsVars, now, ticks, collaborators, nextInvId, failures>>

DeclineIP(s) ==
    LET r == sess[s]
    IN  /\ r.pc = "idle"
        /\ r.page # NoInv
        /\ DeclineUpdate(s, Begin(r, "decline", "page", r.page), r.list, NoInv)
        /\ UNCHANGED <<docVars, acl, wsVars, now, ticks, collaborators, nextInvId, failures>>

(***************************************************************************)
(* Environment: time passes; the store's cleanup function runs             *)
(***************************************************************************)
Tick(d) ==
    /\ ticks < MaxTicks
    /\ now' = now + d
    /\ ticks' = ticks + 1
    /\ lastDone' = NoneDone
    /\ UNCHANGED <<docVars, acl, wsVars, invitations, collaborators, nextInvId, sess, failures>>

\* public.cleanup_expired_invitations()
CleanupExpiredInvitations ==
    /\ \E i \in invitations : i.status = "pending" /\ i.expires_at < now
    /\ invitations' = {IF i.status = "pending" /\ i.expires_at < now
                          THEN [i EXCEPT !.status = "expired"] ELSE i : i \in invitations}
    /\ lastDone' = NoneDone
    /\ UNCHANGED <<docVars, acl, wsVars, now, ticks, collaborators, nextInvId, sess, failures>>

Tokens == 1..MaxInvitations

\* one step of session s
SessionStep(s) ==
    \/ FetchPendingInvitations(s)
    \/ \E t \in Tokens : FetchInvitation(s, t)
    \/ \E e \in InviteEmailInputs, r \in InviteRoles : SendInvitation_CheckCollaborator(s, e, r)
    \/ SendInvitation_CheckExisting(s)
    \/ SendInvitation_DeleteOld(s)
    \/ \E sent \in BOOLEAN : SendInvitation_Insert(s, sent)
    \/ \E e \in ServiceEmailInputs, r \in InviteRoles : CreateInvitation(s, e, r)
    \/ \E i \in sess[s].list : AcceptPI_Update(s, i)
    \/ \E f \in BOOLEAN : AcceptPI_Insert(s, f)
    \/ \E i \in sess[s].list : AcceptWM_Update(s, i)
    \/ AcceptWM_Fetch(s)
    \/ \E f \in BOOLEAN : AcceptWM_Insert(s, f)
    \/ AcceptIP_Update(s)
    \/ \E f \in BOOLEAN : AcceptIP_Insert(s, f)
    \/ \E t \in Tokens : AcceptSvc_Get(s, t)
    \/ AcceptSvc_Check(s)
    \/ \E f \in BOOLEAN : AcceptSvc_Insert(s, f)
    \/ \E f \in BOOLEAN : AcceptSvc_Update(s, f)
    \/ \E i \in sess[s].list : DeclinePI(s, i)
    \/ \E i \in sess[s].list : DeclineWM(s, i)
    \/ DeclineIP(s)

NextInv ==
    \/ \E s \in Sessions : SessionStep(s)
    \/ \E d \in TickSteps : Tick(d)
    \/ CleanupExpiredInvitations

SpecInv == InitInv /\ [][NextInv]_vars

\* the same operations, one call at a time
NextInvSerial ==
    \/ \E s \in Sessions :
          /\ \A t \in Sessions \ {s} : sess[t].pc = "idle"
          /\ SessionStep(s)
    \/ \E d \in TickSteps : Tick(d)
    \/ CleanupExpiredInvitations

SpecInvSerial == InitInv /\ [][NextInvSerial]_vars

Spec == SpecInv


(***************************************************************************)
(* Claims about the invitation lifecycle                                   *)
(***************************************************************************)
CollaboratorRows(rows, w, u) == {c \in rows : c.workspace_id = w /\ c.user_id = u}

InsertPcs == {"pi_insert", "wm_insert", "ip_insert", "svc_insert"}

\* the collaborator inserts of the three in-app accept handlers
HandlerInsertPcs == {"pi_insert", "wm_insert", "ip_insert"}

\* C1: at most one pending invitation row per (workspace, email), also when
\* two sessions interleave their existing-row check, stale-row delete and insert
C1_PendingUnique ==
    \A i \in invitations : \A j \in invitations :
        ( /\ i.workspace_id = j.workspace_id
          /\ i.invitee_email = j.invitee_email
          /\ i.status = "pending"
          /\ j.status = "pending" ) => i = j

\* a sendInvitation passed its existing-row check and then lost the insert
\* to a concurrent call, whose pending row is in the table
C1_Witness ==
    /\ lastDone.op = "send"
    /\ lastDone.res = "error"
    /\ \E i \in invitations : i.status = "pending" /\ i.workspace_id = "w1"

\* C2: an invitation that is accepted, declined or expired never changes
\* status again, whatever accept or decline call runs later
C2_ForwardOnly ==
    [][\A i \in invitations : \A j \in invitations' :
          (j.id = i.id /\ i.status # "pending") => j.status = i.status]_vars

\* C3: an accept repeated right after a successful accept of the same
\* invitation by the same user, or made while the user is already a
\* collaborator, reports success and leaves one Collaborator row and the
\* invitation accepted
C3_IdempotentAccept ==
    [][\A s \in Sessions :
          ( /\ sess[s].op = "accept"
            /\ sess[s].pc # "idle"
            /\ sess'[s].pc = "idle"
            /\ failures' = failures
            /\ sess[s].prevOk \/ (sess[s].wasCollab /\ sess[s].startPending) )
          => /\ lastDone'.res = "ok"
             /\ Cardinality(CollaboratorRows(collaborators', sess[s].inv.workspace_id,
                                             sess[s].user)) = 1
             /\ \A i \in invitations' : i.id = sess[s].inv.id => i.status = "accepted"]_vars

\* C4: an invitation past its expires_at is never moved to accepted or
\* declined and never yields a Collaborator row
C4_NoExpiredAcceptOrDecline ==
    [][\A i \in invitations :
          i.expires_at < now =>
             /\ \A j \in invitations' :
                   (j.id = i.id /\ j.status \in {"accepted", "declined"})
                      => j.status = i.status
             /\ \A s \in Sessions :
                   (sess[s].pc \in InsertPcs /\ sess[s].inv.id = i.id)
                      => collaborators' = collaborators]_vars

\* another accept of the same invitation by the same user overlaps the call of s
OverlappingAccept(s) ==
    \/ \E t \in Sessions \ {s} :
          /\ sess[t].op = "accept"
          /\ sess[t].inv.id = sess[s].inv.id
          /\ sess[t].user = sess[s].user
    \/ /\ lastDone.op = "accept"
       /\ lastDone.res = "ok"
       /\ lastDone.id = sess[s].inv.id
       /\ lastDone.user = sess[s].user

\* C5: of two concurrent accepts of one pending invitation by one user, the
\* one whose Collaborator insert hits the unique constraint reports success,
\* and one Collaborator row and an accepted invitation remain
C5_ConcurrentAccept ==
    [][\A s \in Sessions :
          ( /\ sess[s].op = "accept"
            /\ sess[s].pc \in HandlerInsertPcs
            /\ sess'[s].pc = "idle"
            /\ sess[s].startPending
            /\ ~sess[s].wasCollab
            /\ OverlappingAccept(s)
            /\ failures' = failures
            /\ UniqueCollaboratorViolation(sess[s].inv.workspace_id, sess[s].user) )
          => /\ lastDone'.res = "ok"
             /\ Cardinality(CollaboratorRows(collaborators', sess[s].inv.workspace_id,
                                             sess[s].user)) = 1]_vars


(***************************************************************************)
(* Row-level policies of the store and the clients' role checks            *)
(***************************************************************************)
\* policies "Editors can create files" / "Editors can update files" /
\* "Owners and editors can delete files": the workspace's owner_id, or a
\* collaborators row with role editor or owner
RlsFileWrite(rows, w, u) ==
    \/ WorkspaceOwner(w) = u
    \/ \E c \in rows : /\ c.workspace_id = w /\ c.user_id = u
                       /\ c.role \in {"editor", "owner"}

\* policy "Users can create file versions"
RlsVersionInsert(rows, f, u, createdBy) ==
    /\ u = createdBy
    /\ \/ WorkspaceOwner(FileWorkspace(f)) = u
       \/ \E c \in rows : /\ c.workspace_id = FileWorkspace(f) /\ c.user_id = u
                          /\ c.role \in {"editor", "owner"}

\* variant that admits the editor role only
checkDeletePermission_EditorOnly(rows, w, u) ==
    \E c \in rows : /\ c.workspace_id = w /\ c.user_id = u
                    /\ c.role = "editor"

\* fileService.checkDeletePermission: the collaborators row decides, no row is an error
checkDeletePermission(rows, w, u) ==
    \E c \in rows : /\ c.workspace_id = w /\ c.user_id = u
                    /\ (c.role = "owner" \/ c.role = "editor")

\* MarkdownEditor.checkPermissions: collaborator?.role || (isWorkspaceOwner ? 'owner' : 'viewer')
userRole(rows, w, u) ==
    IF \E c \in rows : c.workspace_id = w /\ c.user_id = u
       THEN (CHOOSE c \in rows : c.workspace_id = w /\ c.user_id = u).role
       ELSE IF WorkspaceOwner(w) = u THEN "owner" ELSE "viewer"

isEditor(rows, w, u) == userRole(rows, w, u) = "editor" \/ userRole(rows, w, u) = "owner"

isOwner(w, u) == WorkspaceOwner(w) = u

(***************************************************************************)
(* The store's change feed and the file effect of MarkdownEditor           *)
(***************************************************************************)
DocUser(s) == sess[s].user

\* the session holds a channel file-<id> on this file
Subscribed(e, f) == \E c \in e.channels : c.id = f

\* the callback registered on the channel file-<id>, with the values it closed over
Handler(e, f) ==
    IF Subscribed(e, f) THEN CHOOSE c \in e.channels : c.id = f ELSE NoHandler

\* return () => supabase.removeChannel(channel): the channel of the file shown so far
Cleanup(e) == [e EXCEPT !.channels = {c \in @ : c.id # e.file.id}]

\* useFileHistory effects on [fileId]: the channel file-versions-<old id> is
\* removed, file-versions-<fileId> is subscribed and fetchVersions() starts
HistoryEffect(e, fileId) ==
    [e EXCEPT !.historyChannels = (@ \ {e.file.id}) \cup {fileId},
              !.inflight = @ \cup {[file |-> fileId, cause |-> "select"]}]

\* postgres_changes INSERT / DELETE on file_versions of file f: every channel
\* filtered on it calls fetchVersions() of the render that subscribed it
NotifyVersions(eds, f) ==
    [t \in Sessions |->
        IF f \in eds[t].historyChannels
           THEN [eds[t] EXCEPT !.inflight = @ \cup {[file |-> f, cause |-> "event"]}]
           ELSE eds[t]]

Push(e, f, n) == IF Subscribed(e, f) THEN [e EXCEPT !.inbox = Append(@, n)] ELSE e

\* postgres_changes UPDATE on files row f reaches every channel filtered on it
Broadcast(eds, f, n) == [t \in Sessions |-> Push(eds[t], f, n)]

\* variant of the effect body without setLastKnownContent
FileEffect_KeepLastKnown(e, keep) ==
    [e EXCEPT !.channels = @ \cup {[id |-> e.file.id, content |-> e.content,
                                     lastKnownContent |-> e.lastKnownContent]},
              !.originalContent = OrEmpty(e.file.content),
              !.content = OrEmpty(e.file.content),
              !.hasExternalChanges = FALSE,
              !.inbox = IF keep THEN @ ELSE <<>>]

\* body of the effect on [file.id, file.workspace_id, file.content]; the
\* handler it subscribes keeps content and lastKnownContent of this render;
\* notifications in flight while the channel is replaced may or may not
\* reach the new channel
FileEffect(e, keep) ==
    [e EXCEPT !.channels = @ \cup {[id |-> e.file.id, content |-> e.content,
                                     lastKnownContent |-> e.lastKnownContent]},
              !.originalContent = OrEmpty(e.file.content),
              !.content = OrEmpty(e.file.content),
              !.lastKnownContent = OrEmpty(e.file.content),
              !.hasExternalChanges = FALSE,
              !.inbox = IF keep THEN @ ELSE <<>>]

DepsChanged(old, new) ==
    old.id # new.id \/ old.workspace_id # new.workspace_id \/ old.content # new.content

\* render of MarkdownEditor with a new file prop, effects included
Render(e, newFile, keep) ==
    LET h == IF e.file.id # newFile.id THEN HistoryEffect(e, newFile.id) ELSE e
    IN  IF DepsChanged(e.file, newFile)
           THEN FileEffect([Cleanup(h) EXCEPT !.file = newFile], keep)
           ELSE [h EXCEPT !.file = newFile]

\* useFileHistory.fetchVersions: rows of the file, .order('created_at', descending)
RECURSIVE OrderByCreatedAtDesc(_)
OrderByCreatedAtDesc(rows) ==
    IF rows = {} THEN <<>>
    ELSE LET m == CHOOSE x \in rows : \A y \in rows : y.created_at <= x.created_at
         IN  <<m>> \o OrderByCreatedAtDesc(rows \ {m})

\* the list in ascending order of created_at
fetchVersions_Ascending(f) ==
    LET d == OrderByCreatedAtDesc({v \in file_versions : v.file_id = f})
    IN  [k \in 1..Len(d) |-> d[Len(d) + 1 - k]]

fetchVersions(f) == OrderByCreatedAtDesc({v \in file_versions : v.file_id = f})

\* INSERT into file_versions; created_at DEFAULT now() of the store
InsertVersion(f, c, vn, u) ==
    /\ file_versions' = file_versions \cup
          {[id |-> versionSeq + 1, file_id |-> f, content |-> c, version_number |-> vn,
            created_by |-> u, created_at |-> versionSeq + 1]}
    /\ versionSeq' = versionSeq + 1
    /\ hist' = [hist EXCEPT !.created[f] = Append(@, [content |-> c, version_number |-> vn])]

(***************************************************************************)
(* EditorView / MarkdownEditor, one action per event of a session          *)
(***************************************************************************)
Done(op, s, ver, res) == docDone' = [op |-> op, sess |-> s, ver |-> ver, res |-> res]

\* FileExplorer onFileSelect -> setSelectedFile: the file prop changes and
\* the file effect runs with the buffer of the previous render
SelectFile(s, f) ==
    /\ ed[s].file.id # f
    /\ f \in DOMAIN files
    /\ ed[s].file # NoFile => hist.switches < MaxSwitches
    /\ hist' = IF ed[s].file # NoFile THEN [hist EXCEPT !.switches = @ + 1] ELSE hist
    /\ ed' = [ed EXCEPT ![s] =
                 Render(ed[s], [id |-> f, workspace_id |-> FileWorkspace(f),
                                content |-> files[f]], FALSE)]
    /\ docDone' = NoDocDone
    /\ UNCHANGED <<files, file_versions, versionSeq, clock, invVars, acl, wsVars>>

\* Textarea onChange -> updateContent(newContent)
updateContent(s, newContent) ==
    LET e == ed[s] IN
        /\ e.file # NoFile
        /\ newContent # e.content
        /\ hist.edits < MaxEdits
        /\ ed' = [ed EXCEPT ![s] =
                     [e EXCEPT !.content = newContent,
                               !.hasExternalChanges =
                                   IF /\ newContent # e.lastKnownContent
                                      /\ newContent # e.originalContent
                                      THEN TRUE ELSE @]]
        /\ hist' = [hist EXCEPT !.edits = @ + 1]
        /\ docDone' = NoDocDone
        /\ UNCHANGED <<files, file_versions, versionSeq, clock, invVars, acl, wsVars>>

\* the early returns of saveToDatabase: no file, or nothing changed since the
\* last save
SaveHasChanges(e) == e.file # NoFile /\ e.content # e.originalContent

\* saveFile() / autosave timer -> saveToDatabase(): the UPDATE of the files
\* row; the store applies it and feeds every subscribed channel
SaveToDatabase_Update(s) ==
    LET e == ed[s]
        f == e.file.id
    IN  /\ SaveHasChanges(e)
        /\ e.pc = "idle"
        /\ hist.saves < MaxSaves
        /\ hist' = [hist EXCEPT !.saves = @ + 1]
        /\ IF RlsFileWrite(collaborators, FileWorkspace(f), DocUser(s))
              THEN /\ files' = [files EXCEPT ![f] = e.content]
                   /\ ed' = Broadcast([ed EXCEPT ![s] = [e EXCEPT !.pc = "saving",
                                                               !.saveFile = f,
                                                               !.saveContent = e.content]],
                                      f, [file |-> f, content |-> e.content,
                                          by |-> s, kind |-> "save"])
              ELSE UNCHANGED <<files, ed>>
        /\ docDone' = NoDocDone
        /\ UNCHANGED <<file_versions, versionSeq, clock, invVars, acl, wsVars>>

\* the response of the UPDATE: setOriginalContent(saveContent), onFileUpdate(data)
SaveToDatabase_Response(s, keep) ==
    LET e == ed[s] IN
        /\ e.pc = "saving"
        /\ ed' = [ed EXCEPT ![s] =
                     Render([e EXCEPT !.originalContent = e.saveContent,
                                      !.pc = "versioning"],
                            [id |-> e.saveFile, workspace_id |-> FileWorkspace(e.saveFile),
                             content |-> e.saveContent], keep)]
        /\ docDone' = NoDocDone
        /\ UNCHANGED <<files, file_versions, versionSeq, clock, hist, invVars, acl, wsVars>>

\* "Create version entry silently": version_number = Math.floor(Date.now() / 1000)
SaveToDatabase_Version(s) ==
    LET e == ed[s]
        f == e.saveFile
        u == DocUser(s)
        back == [ed EXCEPT ![s] = [e EXCEPT !.pc = "idle", !.saveFile = "none",
                                            !.saveContent = ""]]
    IN  /\ e.pc = "versioning"
        /\ IF RlsVersionInsert(collaborators, f, u, u) /\ clock <= Int4Max
              THEN /\ InsertVersion(f, e.saveContent, clock, u)
                   /\ ed' = NotifyVersions(back, f)
              ELSE /\ UNCHANGED <<file_versions, versionSeq, hist>>
                   /\ ed' = back
        /\ docDone' = NoDocDone
        /\ UNCHANGED <<files, clock, invVars, acl, wsVars>>

\* useFileHistory.createVersion(content, userId):
\* version_number = Date.now() * 1000 + random, sent to an INTEGER column
createVersion(s) ==
    LET e == ed[s]
        f == e.file.id
        u == DocUser(s)
    IN  /\ e.file # NoFile
        /\ IF /\ clock <= Int4Max \div HookVersionScale
              /\ RlsVersionInsert(collaborators, f, u, u)
              THEN /\ InsertVersion(f, e.content, clock * HookVersionScale, u)
                   /\ ed' = NotifyVersions(ed, f)
                   /\ Done("createVersion", s, 0, "ok")
              ELSE /\ UNCHANGED <<file_versions, versionSeq, hist, ed>>
                   /\ Done("createVersion", s, 0, "error")
        /\ UNCHANGED <<files, clock, invVars, acl, wsVars>>

\* postgres_changes handler of the file channel, as subscribed by the effect
HandleFileChange(s, keep) ==
    LET e == ed[s] IN
        /\ e.inbox # <<>>
        /\ LET updatedFile == Head(e.inbox)
               e0 == [e EXCEPT !.inbox = Tail(@)]
               h == Handler(e, updatedFile.file)
           IN  IF ~Subscribed(e, updatedFile.file)
                  THEN /\ ed' = [ed EXCEPT ![s] = e0]
                       /\ Done("notify", s, 0, "no channel")
                  ELSE IF /\ updatedFile.content # h.content
                          /\ updatedFile.content # h.lastKnownContent
                  THEN /\ ed' = [ed EXCEPT ![s] =
                                    Render([e0 EXCEPT !.content = updatedFile.content,
                                                      !.originalContent = updatedFile.content,
                                                      !.hasExternalChanges = TRUE],
                                           [id |-> updatedFile.file,
                                            workspace_id |-> FileWorkspace(updatedFile.file),
                                            content |-> updatedFile.content],
                                           keep)]
                       /\ Done("notify", s, 0, "external")
                  ELSE /\ ed' = [ed EXCEPT ![s] = e0]
                       /\ Done("notify", s, 0, "ignored")
        /\ UNCHANGED <<files, file_versions, versionSeq, clock, hist, invVars, acl, wsVars>>

\* a restore that also drops the versions newer than the restored one
RestoreUpdate_DropNewer(f, v) ==
    /\ files' = [files EXCEPT ![f] = v.content]
    /\ file_versions' = {w \in file_versions : w.file_id # f \/ w.created_at <= v.created_at}

\* restoreVersion: .from('files').update({content: version.content, updated_at}).eq('id', fileId)
RestoreUpdate(f, v) ==
    /\ files' = [files EXCEPT ![f] = v.content]
    /\ UNCHANGED file_versions

\* setSelectedVersion(version) on an entry of the version list, then a Restore
\* button -> useFileHistory.restoreVersion(selectedVersion): the UPDATE of
\* the files row; inline is the button of the diff panel
restoreVersion(s, v, inline) ==
    LET e == ed[s]
        f == e.file.id
    IN  /\ e.file # NoFile
        /\ v.file_id = f
        /\ isOwner(FileWorkspace(f), DocUser(s))
        /\ e.pc = "idle"
        /\ hist.restores < MaxRestores
        /\ hist' = [hist EXCEPT !.restores = @ + 1]
        /\ RestoreUpdate(f, v)
        /\ ed' = Broadcast([ed EXCEPT ![s] =
                               [e EXCEPT !.pc = "restoring", !.restoreInline = inline,
                                         !.selectedVersion =
                                             [id |-> v.id, content |-> v.content,
                                              created_at |-> v.created_at],
                                         !.atClick = [lastKnownContent |-> e.lastKnownContent,
                                                      originalContent |-> e.originalContent]]],
                           f, [file |-> f, content |-> v.content, by |-> s,
                               kind |-> "restore"])
        /\ Done("restoreUpdate", s, v.id, "ok")
        /\ UNCHANGED <<versionSeq, clock, invVars, acl, wsVars>>

\* after restoreVersion returned true: window.location.reload(), or
\* updateContent / setOriginalContent of the render that showed the button
RestoreDone(s) ==
    LET e == ed[s]
        c == e.selectedVersion.content
    IN  /\ e.pc = "restoring"
        /\ ed' = [ed EXCEPT ![s] =
                     IF e.restoreInline
                        THEN [e EXCEPT !.content = c,
                                       !.hasExternalChanges =
                                           IF /\ c # e.atClick.lastKnownContent
                                              /\ c # e.atClick.originalContent
                                              THEN TRUE ELSE @,
                                       !.originalContent = c,
                                       !.selectedVersion = NoVersion,
                                       !.pc = "idle",
                                       !.restoreInline = FALSE,
                                       !.atClick = InitEd.atClick]
                        ELSE InitEd]
        /\ Done("restore", s, e.selectedVersion.id, "ok")
        /\ UNCHANGED <<files, file_versions, versionSeq, clock, hist, invVars, acl, wsVars>>

\* Clear History button: delete file_versions of the file, then reload; the
\* migration defines no DELETE policy on file_versions, so the store may
\* filter every row out without an error
ClearHistory(s, denied) ==
    LET e == ed[s]
        f == e.file.id
    IN  /\ e.file # NoFile
        /\ e.pc = "idle"
        /\ isOwner(FileWorkspace(f), DocUser(s))
        /\ Len(fetchVersions(f)) > 0
        /\ IF denied
              THEN UNCHANGED <<file_versions, hist>>
              ELSE /\ file_versions' = {v \in file_versions : v.file_id # f}
                   /\ hist' = [hist EXCEPT !.cleared[f] = TRUE]
        /\ ed' = IF denied THEN [ed EXCEPT ![s] = InitEd]
                            ELSE [NotifyVersions(ed, f) EXCEPT ![s] = InitEd]
        /\ docDone' = NoDocDone
        /\ UNCHANGED <<files, versionSeq, clock, invVars, acl, wsVars>>

\* a second of wall-clock time passes
ClockTick ==
    /\ clock < ClockStart + MaxClock
    /\ clock' = clock + 1
    /\ docDone' = NoDocDone
    /\ UNCHANGED <<files, file_versions, versionSeq, ed, hist, invVars, acl, wsVars>>

DocStep(s) ==
    \/ \E f \in Files : SelectFile(s, f)
    \/ \E c \in Texts : updateContent(s, c)
    \/ SaveToDatabase_Update(s)
    \/ \E keep \in BOOLEAN : SaveToDatabase_Response(s, keep)
    \/ SaveToDatabase_Version(s)
    \/ createVersion(s)
    \/ \E keep \in BOOLEAN : HandleFileChange(s, keep)
    \/ \E v \in file_versions, inline \in BOOLEAN : restoreVersion(s, v, inline)
    \/ RestoreDone(s)
    \/ \E denied \in BOOLEAN : ClearHistory(s, denied)

NextDoc ==
    \/ \E s \in Sessions : DocStep(s)
    \/ ClockTick

\* role of the second user's collaborators row
DocRoles == {"editor", "viewer"}

\* workspace w1 of alice with collaborator bob, one file, both signed in
InitDoc ==
    /\ now = 0
    /\ ticks = 0
    /\ invitations = {}
    /\ \E r \in DocRoles :
          collaborators = {[workspace_id |-> "w1", user_id |-> "alice", role |-> "owner"],
                           [workspace_id |-> "w1", user_id |-> "bob", role |-> r]}
    /\ nextInvId = 1
    /\ sess = [s \in Sessions |-> IdleSess(IF s = "s1" THEN "alice" ELSE "bob", {}, NoInv)]
    /\ lastDone = NoneDone
    /\ failures = 0
    /\ DocAtRest
    /\ acl = NoAcl
    /\ WsAtRest

SpecDoc == InitDoc /\ [][NextDoc]_vars

(***************************************************************************)
(* Switching between files: the change-feed channels of a session and the  *)
(* version list of useFileHistory                                          *)
(***************************************************************************)
\* a fetchVersions() call returns: setVersions(rows of the file it was
\* started for), whichever file the editor shows by now
FetchVersions_Response(s, q) ==
    LET e == ed[s] IN
        /\ q \in e.inflight
        /\ ed' = [ed EXCEPT ![s] =
                     [e EXCEPT !.inflight = @ \ {q},
                               !.versions = [of |-> q.file,
                                             rows |-> {v.id : v \in {x \in file_versions :
                                                                       x.file_id = q.file}}]]]
        /\ Done("fetchVersions", s, 0, q.cause)
        /\ UNCHANGED <<files, file_versions, versionSeq, clock, hist, invVars, acl, wsVars>>

SubStep(s) ==
    \/ \E f \in AllFiles : SelectFile(s, f)
    \/ \E c \in Texts : updateContent(s, c)
    \/ SaveToDatabase_Update(s)
    \/ \E keep \in BOOLEAN : SaveToDatabase_Response(s, keep)
    \/ SaveToDatabase_Version(s)
    \/ \E keep \in BOOLEAN : HandleFileChange(s, keep)
    \/ \E q \in ed[s].inflight : FetchVersions_Response(s, q)

NextSub == \E s \in Sessions : SubStep(s)

\* both workspaces with one file each; alice and bob can write both
InitSub ==
    /\ now = 0
    /\ ticks = 0
    /\ invitations = {}
    /\ collaborators = {[workspace_id |-> "w1", user_id |-> "alice", role |-> "owner"],
                        [workspace_id |-> "w1", user_id |-> "bob", role |-> "editor"],
                        [workspace_id |-> "w2", user_id |-> "bob", role |-> "owner"],
                        [workspace_id |-> "w2", user_id |-> "alice", role |-> "editor"]}
    /\ nextInvId = 1
    /\ sess = [s \in Sessions |-> IdleSess(IF s = "s1" THEN "alice" ELSE "bob", {}, NoInv)]
    /\ lastDone = NoneDone
    /\ failures = 0
    /\ files = [f \in AllFiles |-> InitialText]
    /\ file_versions = {}
    /\ versionSeq = 0
    /\ clock = ClockStart
    /\ ed = [s \in Sessions |-> InitEd]
    /\ docDone = NoDocDone
    /\ hist = [NoHist EXCEPT !.created = [f \in AllFiles |-> <<>>],
                             !.cleared = [f \in AllFiles |-> FALSE]]
    /\ acl = NoAcl
    /\ WsAtRest

SpecSub == InitSub /\ [][NextSub]_vars

(***************************************************************************)
(* Claims about reconciliation and the version log                         *)
(***************************************************************************)
\* this step is the file channel handler of s taking the next notification
Handles(s) ==
    /\ ed[s].inbox # <<>>
    /\ docDone'.op = "notify"
    /\ docDone'.sess = s

\* C6: the notification that carries a session's own save is never the
\* event that turns on the session's external-changes flag, whether it is
\* handled before or after the save response
C6_EchoSuppressed ==
    [][\A s \in Sessions :
          ( /\ Handles(s)
            /\ Head(ed[s].inbox).by = s
            /\ Head(ed[s].inbox).kind = "save" )
          => ~(~ed[s].hasExternalChanges /\ ed'[s].hasExternalChanges)]_vars

\* buffer, baseline, last known content and flag are the same after the step
SameBuffers(s) ==
    /\ ed'[s].content = ed[s].content
    /\ ed'[s].originalContent = ed[s].originalContent
    /\ ed'[s].lastKnownContent = ed[s].lastKnownContent
    /\ ed'[s].hasExternalChanges = ed[s].hasExternalChanges

\* C7: every notification is classified against the session's content and
\* lastKnownContent at the time it is handled: equal to the content or
\* to lastKnownContent changes nothing; otherwise content and baseline become
\* the incoming content and the session is flagged
C7_ThreeWayRule ==
    [][\A s \in Sessions :
          Handles(s) =>
             LET incoming == Head(ed[s].inbox).content IN
                 IF incoming = ed[s].content \/ incoming = ed[s].lastKnownContent
                    THEN SameBuffers(s)
                    ELSE /\ ed'[s].content = incoming
                         /\ ed'[s].originalContent = incoming
                         /\ ed'[s].hasExternalChanges]_vars

\* C8: while the history of a file was not cleared, fetchVersions returns one
\* entry per version row created for the file, the newest first
C8_VersionsAppendOnly ==
    \A f \in Files :
        ~hist.cleared[f] =>
            LET listed == fetchVersions(f)
                created == hist.created[f]
            IN  /\ Len(listed) = Len(created)
                /\ \A k \in 1..Len(listed) :
                      /\ listed[k].content = created[Len(created) + 1 - k].content
                      /\ listed[k].version_number =
                             created[Len(created) + 1 - k].version_number

\* two saves of different texts left two version rows, history not cleared
C8_Witness ==
    /\ ~hist.cleared["f1"]
    /\ Len(hist.created["f1"]) = 2
    /\ hist.created["f1"][1].content # hist.created["f1"][2].content
    /\ Len(fetchVersions("f1")) = 2

\* C9: a restore changes the content of the restored file's row only; the
\* file_versions rows, those newer than the restored one included, stay as
\* they are
C9_RestoreFrame ==
    [][(docDone'.op = "restoreUpdate" \/ docDone'.op = "restore") =>
          /\ file_versions' = file_versions
          /\ \A f \in Files :
                files'[f] # files[f] =>
                   /\ docDone'.op = "restoreUpdate"
                   /\ \E v \in file_versions :
                         v.id = docDone'.ver /\ v.file_id = f /\ files'[f] = v.content]_vars

\* an older version was restored while a newer version row exists
C9_Witness ==
    /\ docDone.op = "restore"
    /\ \E v \in file_versions : \E w \in file_versions :
          /\ v.id = docDone.ver
          /\ w.file_id = v.file_id
          /\ w.created_at > v.created_at
          /\ files[v.file_id] = v.content

(***************************************************************************)
(* Permission checks applied to a collaborators table                      *)
(***************************************************************************)
\* fileService.deleteFile, first step: the permission check of the caller
deleteFile_CheckPermission(u) ==
    /\ acl' = [check |-> "checkDeletePermission", user |-> u,
               allowed |-> checkDeletePermission(collaborators, "w1", u)]
    /\ UNCHANGED <<invVars, docVars, wsVars>>

\* MarkdownEditor.checkPermissions: setIsEditor(role === 'editor' || role === 'owner')
checkPermissions(u) ==
    /\ acl' = [check |-> "checkPermissions", user |-> u,
               allowed |-> isEditor(collaborators, "w1", u)]
    /\ UNCHANGED <<invVars, docVars, wsVars>>

\* the store evaluates the insert / update / delete policy of files for the caller
FilesWritePolicy(u) ==
    /\ acl' = [check |-> "files", user |-> u,
               allowed |-> RlsFileWrite(collaborators, "w1", u)]
    /\ UNCHANGED <<invVars, docVars, wsVars>>

\* the store evaluates the insert policy of file_versions for a row the caller signs
FileVersionsInsertPolicy(u, f) ==
    /\ acl' = [check |-> "file_versions", user |-> u,
               allowed |-> RlsVersionInsert(collaborators, f, u, u)]
    /\ UNCHANGED <<invVars, docVars, wsVars>>

NextAcl ==
    \/ \E u \in Users : deleteFile_CheckPermission(u)
    \/ \E u \in Users : checkPermissions(u)
    \/ \E u \in Users : FilesWritePolicy(u)
    \/ \E u \in Users, f \in Files : FileVersionsInsertPolicy(u, f)

\* the collaborators tables the schema admits for workspace w1: at most one row
\* per (workspace_id, user_id), role within the CHECK constraint
CollaboratorTables ==
    { {[workspace_id |-> "w1", user_id |-> u, role |-> g[u]] :
          u \in {x \in Users : g[x] # "none"}} :
      g \in [Users -> Roles \cup {"none"}] }

InitAcl ==
    /\ now = 0
    /\ ticks = 0
    /\ invitations = {}
    /\ collaborators \in CollaboratorTables
    /\ nextInvId = 1
    /\ sess = [s \in Sessions |-> IdleSess(IF s = "s1" THEN "alice" ELSE "bob", {}, NoInv)]
    /\ lastDone = NoneDone
    /\ failures = 0
    /\ DocAtRest
    /\ acl = NoAcl
    /\ WsAtRest

SpecAcl == InitAcl /\ [][NextAcl]_vars

(***************************************************************************)
(* Claim about the role hierarchy                                          *)
(***************************************************************************)
\* C10: role monotonicity.  Whenever a check has just allowed a user whose
\* collaborators row carries role r, the same check on the same table with
\* that row raised one step (viewer to editor, editor to owner) allows the
\* user too; workspace ownership is left as it is.
C10_RoleMonotone ==
    LET u == acl.user
        Holds(r) == [workspace_id |-> "w1", user_id |-> u, role |-> r] \in collaborators
        Raised(r) == {c \in collaborators : c.user_id # u}
                        \cup {[workspace_id |-> "w1", user_id |-> u, role |-> r]}
    IN  \A st \in {<<"viewer", "editor">>, <<"editor", "owner">>} :
           (acl.allowed /\ Holds(st[1])) =>
              /\ acl.check = "checkDeletePermission"
                    => checkDeletePermission(Raised(st[2]), "w1", u)
              /\ acl.check = "checkPermissions"
                    => isEditor(Raised(st[2]), "w1", u)
              /\ acl.check = "files"
                    => RlsFileWrite(Raised(st[2]), "w1", u)
              /\ acl.check = "file_versions"
                    => \A f \in Files : RlsVersionInsert(Raised(st[2]), f, u, u)

\* the delete check has allowed bob, whose row says editor
C10_Witness ==
    /\ acl.check = "checkDeletePermission"
    /\ acl.user = "bob"
    /\ acl.allowed
    /\ [workspace_id |-> "w1", user_id |-> "bob", role |-> "editor"] \in collaborators

\* C11: the user who is the workspace's owner_id is allowed by the delete
\* check and counted as an editor by the editor's role evaluation, whatever
\* collaborators row (none, or one with a lower role) the table holds
C11_OwnerAlwaysGranted ==
    (acl.user = WorkspaceOwner("w1")
        /\ acl.check \in {"checkDeletePermission", "checkPermissions"})
       => acl.allowed

(***************************************************************************)
(* workspaceService.deleteWorkspace and fileService.deleteFile             *)
(***************************************************************************)
MaxDelCalls == 2        \* delete calls started in a behaviour
MaxChatRows == 3        \* rows chat_messages may hold
MaxVersionSeq == 3      \* version rows ever inserted

\* the steps of deleteWorkspace, as its failure messages name them
DeletionSteps ==
    <<"file versions", "files", "chat messages", "workspace activity",
      "workspace invitations", "workspace requests", "collaborators", "workspace">>

\* variant that shows a workspace to its collaborators only
RlsWorkspaceSelect_CollaboratorOnly(w, u) ==
    \E r \in workspaces :
        /\ r.id = w
        /\ \E c \in collaborators : c.workspace_id = w /\ c.user_id = u

\* policy "Users can view workspaces they own or collaborate on"
RlsWorkspaceSelect(w, u) ==
    \E r \in workspaces :
        /\ r.id = w
        /\ \/ r.owner_id = u
           \/ \E c \in collaborators : c.workspace_id = w /\ c.user_id = u

\* policies "Workspace owners can delete their workspaces" and
\* "Workspace owners can manage collaborators"
RlsOwner(w, u) == \E r \in workspaces : r.id = w /\ r.owner_id = u

\* delete of file rows; file_versions.file_id is ON DELETE CASCADE
FilesAfterDelete(gone) == [g \in (DOMAIN files) \ gone |-> files[g]]
\* variant without the cascade
VersionsAfterDelete_NoCascade(gone) == file_versions

VersionsAfterDelete(gone) == {v \in file_versions : v.file_id \notin gone}

\* rows of a table with a workspace_id column that survive the delete of w
Without(rows, w) == {r \in rows : r.workspace_id # w}

\* the call c returns {success, message}
DelReturn(c, success, step) ==
    /\ delDone' = [op |-> c.op, user |-> c.user, w |-> c.w, f |-> c.f,
                   success |-> success, step |-> step, steps |-> c.steps,
                   retry |-> c.retry, clean |-> c.clean]
    /\ del' = [NoDel EXCEPT !.calls = del.calls + (IF del.op = "none" THEN 1 ELSE 0)]

\* the call reaches its next await, the step just made recorded
DelGoto(pc, step) ==
    /\ del' = [del EXCEPT !.pc = pc, !.steps = Append(@, step)]
    /\ UNCHANGED delDone

\* the in-flight call with a store error noted
Tainted(fail) == [del EXCEPT !.clean = @ /\ ~fail]

\* a store error is injected into this step
DelInject(fail) ==
    /\ Inject(fail)
    /\ UNCHANGED <<now, ticks, nextInvId, sess, lastDone>>

\* what neither delete call touches
editorVars == <<clock, ed, docDone, hist, acl, versionSeq, users, fx, fxDone, diffView>>

\* variant without the ownership comparison
OwnerCheck_Skipped(w, u) == TRUE

\* line 23: workspace.owner_id === userId
OwnerCheck(w, u) == \E r \in workspaces : r.id = w /\ r.owner_id = u

\* deleteWorkspace(workspaceId, userId), lines 8-28: the caller must be owner_id
DeleteWorkspace_Check(u, w, fail) ==
    /\ del.op = "none"
    /\ del.calls < MaxDelCalls
    /\ DelInject(fail)
    /\ LET c == [NoDel EXCEPT !.op = "deleteWorkspace", !.user = u, !.w = w,
                              !.clean = ~fail, !.calls = del.calls + 1,
                              !.retry = /\ delDone.op = "deleteWorkspace"
                                        /\ delDone.user = u /\ delDone.w = w
                                        /\ ~delDone.success
                                        /\ \E k \in 1..Len(DeletionSteps) :
                                              delDone.step = DeletionSteps[k]]
       IN  IF fail \/ ~RlsWorkspaceSelect(w, u)
              THEN DelReturn(c, FALSE, "fetch workspace")
              ELSE IF ~OwnerCheck(w, u)
                      THEN DelReturn(c, FALSE, "permission")
                      ELSE del' = [c EXCEPT !.pc = "fetchFiles"] /\ UNCHANGED delDone
    /\ UNCHANGED <<invitations, collaborators, files, file_versions, editorVars,
                   workspaces, chat_messages, workspace_activity, workspace_requests>>

\* lines 35-47: select id from files where workspace_id = w
DeleteWorkspace_FetchFiles(fail) ==
    /\ del.op = "deleteWorkspace" /\ del.pc = "fetchFiles"
    /\ DelInject(fail)
    /\ IF fail
          THEN DelReturn(Tainted(fail), FALSE, "fetch workspace files")
          ELSE /\ del' = [del EXCEPT !.pc = "file versions",
                                     !.fileIds = {g \in DOMAIN files : FileWorkspace(g) = del.w}]
               /\ UNCHANGED delDone
    /\ UNCHANGED <<invitations, collaborators, files, file_versions, editorVars,
                   workspaces, chat_messages, workspace_activity, workspace_requests>>

\* lines 49-64: delete from file_versions where file_id in (fileIds), skipped
\* when the workspace has no file; file_versions has no DELETE policy, so
\* the store may leave the rows without reporting an error
DeleteWorkspace_FileVersions(fail, denied) ==
    /\ del.op = "deleteWorkspace" /\ del.pc = "file versions"
    /\ DelInject(fail /\ del.fileIds # {})
    /\ IF fail /\ del.fileIds # {}
          THEN /\ DelReturn(Tainted(fail), FALSE, "file versions")
               /\ UNCHANGED file_versions
          ELSE /\ file_versions' = IF denied THEN file_versions
                                             ELSE VersionsAfterDelete(del.fileIds)
               /\ DelGoto("files", "file versions")
    /\ UNCHANGED <<invitations, collaborators, files, editorVars,
                   workspaces, chat_messages, workspace_activity, workspace_requests>>

\* lines 66-80: delete from files where workspace_id = w
DeleteWorkspace_Files(fail) ==
    /\ del.op = "deleteWorkspace" /\ del.pc = "files"
    /\ DelInject(fail)
    /\ IF fail
          THEN /\ DelReturn(Tainted(fail), FALSE, "files")
               /\ UNCHANGED <<files, file_versions>>
          ELSE LET gone == IF RlsFileWrite(collaborators, del.w, del.user)
                              THEN {g \in DOMAIN files : FileWorkspace(g) = del.w}
                              ELSE {}
               IN  /\ files' = FilesAfterDelete(gone)
                   /\ file_versions' = VersionsAfterDelete(gone)
                   /\ DelGoto("chat messages", "files")
    /\ UNCHANGED <<invitations, collaborators, editorVars,
                   workspaces, chat_messages, workspace_activity, workspace_requests>>

\* lines 82-96: delete from chat_messages where workspace_id = w; the table
\* has no DELETE policy
DeleteWorkspace_Chat(fail, denied) ==
    /\ del.op = "deleteWorkspace" /\ del.pc = "chat messages"
    /\ DelInject(fail)
    /\ IF fail
          THEN /\ DelReturn(Tainted(fail), FALSE, "chat messages")
               /\ UNCHANGED chat_messages
          ELSE /\ chat_messages' = IF denied THEN chat_messages
                                             ELSE Without(chat_messages, del.w)
               /\ DelGoto("workspace activity", "chat messages")
    /\ UNCHANGED <<invitations, collaborators, files, file_versions, editorVars,
                   workspaces, workspace_activity, workspace_requests>>

\* lines 98-112: delete from workspace_activity where workspace_id = w
DeleteWorkspace_Activity(fail) ==
    /\ del.op = "deleteWorkspace" /\ del.pc = "workspace activity"
    /\ DelInject(fail)
    /\ IF fail
          THEN /\ DelReturn(Tainted(fail), FALSE, "workspace activity")
               /\ UNCHANGED workspace_activity
          ELSE /\ workspace_activity' = Without(workspace_activity, del.w)
               /\ DelGoto("workspace invitations", "workspace activity")
    /\ UNCHANGED <<invitations, collaborators, files, file_versions, editorVars,
                   workspaces, chat_messages, workspace_requests>>

\* lines 114-128: delete from workspace_invitations where workspace_id = w
DeleteWorkspace_Invitations(fail) ==
    /\ del.op = "deleteWorkspace" /\ del.pc = "workspace invitations"
    /\ DelInject(fail)
    /\ IF fail
          THEN /\ DelReturn(Tainted(fail), FALSE, "workspace invitations")
               /\ UNCHANGED invitations
          ELSE /\ invitations' = Without(invitations, del.w)
               /\ DelGoto("workspace requests", "workspace invitations")
    /\ UNCHANGED <<collaborators, files, file_versions, editorVars,
                   workspaces, chat_messages, workspace_activity, workspace_requests>>

\* lines 130-144: delete from workspace_requests where workspace_id = w
DeleteWorkspace_Requests(fail) ==
    /\ del.op = "deleteWorkspace" /\ del.pc = "workspace requests"
    /\ DelInject(fail)
    /\ IF fail
          THEN /\ DelReturn(Tainted(fail), FALSE, "workspace requests")
               /\ UNCHANGED workspace_requests
          ELSE /\ workspace_requests' = Without(workspace_requests, del.w)
               /\ DelGoto("collaborators", "workspace requests")
    /\ UNCHANGED <<invitations, collaborators, files, file_versions, editorVars,
                   workspaces, chat_messages, workspace_activity>>

\* lines 146-160: delete from collaborators where workspace_id = w
DeleteWorkspace_Collaborators(fail) ==
    /\ del.op = "deleteWorkspace" /\ del.pc = "collaborators"
    /\ DelInject(fail)
    /\ IF fail
          THEN /\ DelReturn(Tainted(fail), FALSE, "collaborators")
               /\ UNCHANGED collaborators
          ELSE /\ collaborators' = IF RlsOwner(del.w, del.user)
                                      THEN Without(collaborators, del.w)
                                      ELSE collaborators
               /\ DelGoto("workspace", "collaborators")
    /\ UNCHANGED <<invitations, files, file_versions, editorVars,
                   workspaces, chat_messages, workspace_activity, workspace_requests>>

\* lines 162-185: delete from workspaces where id = w and owner_id = u,
\* returning the deleted rows; every dependent table references
\* workspaces(id) ON DELETE CASCADE
DeleteWorkspace_Workspace(fail) ==
    /\ del.op = "deleteWorkspace" /\ del.pc = "workspace"
    /\ DelInject(fail)
    /\ IF fail
          THEN /\ DelReturn(Tainted(fail), FALSE, "workspace")
               /\ UNCHANGED <<workspaces, files, file_versions, chat_messages,
                              workspace_activity, invitations, workspace_requests,
                              collaborators>>
          ELSE IF ~RlsOwner(del.w, del.user)
                  THEN /\ DelReturn(del, FALSE, "not found")
                       /\ UNCHANGED <<workspaces, files, file_versions, chat_messages,
                                      workspace_activity, invitations,
                                      workspace_requests, collaborators>>
                  ELSE LET gone == {g \in DOMAIN files : FileWorkspace(g) = del.w} IN
                       /\ workspaces' = {r \in workspaces : r.id # del.w}
                       /\ files' = FilesAfterDelete(gone)
                       /\ file_versions' = VersionsAfterDelete(gone)
                       /\ chat_messages' = Without(chat_messages, del.w)
                       /\ workspace_activity' = Without(workspace_activity, del.w)
                       /\ invitations' = Without(invitations, del.w)
                       /\ workspace_requests' = Without(workspace_requests, del.w)
                       /\ collaborators' = Without(collaborators, del.w)
                       /\ DelReturn([del EXCEPT !.steps = Append(@, "workspace")],
                                    TRUE, "none")
    /\ UNCHANGED editorVars

\* deleteFile(fileId, workspaceId, userId), lines 34-47: checkDeletePermission
\* of the caller in the workspace passed in
DeleteFile_Check(u, f, w, fail) ==
    /\ del.op = "none"
    /\ del.calls < MaxDelCalls
    /\ DelInject(fail)
    /\ LET c == [NoDel EXCEPT !.op = "deleteFile", !.user = u, !.w = w, !.f = f,
                              !.clean = ~fail, !.calls = del.calls + 1]
       IN  IF fail \/ ~checkDeletePermission(collaborators, w, u)
              THEN DelReturn(c, FALSE, "permission")
              ELSE del' = [c EXCEPT !.pc = "file versions"] /\ UNCHANGED delDone
    /\ UNCHANGED <<invitations, collaborators, files, file_versions, editorVars,
                   workspaces, chat_messages, workspace_activity, workspace_requests>>

\* lines 49-62: delete from file_versions where file_id = fileId
DeleteFile_Versions(fail, denied) ==
    /\ del.op = "deleteFile" /\ del.pc = "file versions"
    /\ DelInject(fail)
    /\ IF fail
          THEN /\ DelReturn(Tainted(fail), FALSE, "file versions")
               /\ UNCHANGED file_versions
          ELSE /\ file_versions' = IF denied THEN file_versions
                                             ELSE VersionsAfterDelete({del.f})
               /\ DelGoto("file", "file versions")
    /\ UNCHANGED <<invitations, collaborators, files, editorVars,
                   workspaces, chat_messages, workspace_activity, workspace_requests>>

\* lines 64-95: delete from files where id = fileId and workspace_id =
\* workspaceId, returning the deleted rows
DeleteFile_File(fail) ==
    /\ del.op = "deleteFile" /\ del.pc = "file"
    /\ DelInject(fail)
    /\ IF fail
          THEN /\ DelReturn(Tainted(fail), FALSE, "file")
               /\ UNCHANGED <<files, file_versions>>
          ELSE LET gone == {g \in DOMAIN files :
                               /\ g = del.f
                               /\ FileWorkspace(g) = del.w
                               /\ RlsFileWrite(collaborators, FileWorkspace(g), del.user)}
               IN  /\ files' = FilesAfterDelete(gone)
                   /\ file_versions' = VersionsAfterDelete(gone)
                   /\ IF gone = {}
                         THEN DelReturn(del, FALSE, "not found")
                         ELSE DelReturn([del EXCEPT !.steps = Append(@, "file")],
                                        TRUE, "none")
    /\ UNCHANGED <<invitations, collaborators, editorVars,
                   workspaces, chat_messages, workspace_activity, workspace_requests>>

(***************************************************************************)
(* Writes of other sessions while a delete call is in flight               *)
(***************************************************************************)
\* ChatSidebar.sendMessage: insert into chat_messages; the row references
\* workspaces(id) and the insert policy asks for the owner or a collaborator
sendMessage(u, w) ==
    /\ Cardinality(chat_messages) < MaxChatRows
    /\ \E r \in workspaces : r.id = w
    /\ RlsWorkspaceSelect(w, u)
    /\ chat_messages' = chat_messages \cup
          {ChildRow(1 + Cardinality({k \in 1..MaxChatRows :
                                       \E m \in chat_messages : m.id = k}), w)}
    /\ UNCHANGED <<invVars, files, file_versions, editorVars,
                   workspaces, workspace_activity, workspace_requests, del, delDone>>

\* saveToDatabase of an editor session: its file_versions insert; the row
\* references files(id)
saveVersion(u, f) ==
    /\ versionSeq < MaxVersionSeq
    /\ f \in Files /\ f \in DOMAIN files
    /\ RlsVersionInsert(collaborators, f, u, u)
    /\ InsertVersion(f, files[f], clock, u)
    /\ UNCHANGED <<invVars, files, clock, ed, docDone, acl, wsVars>>

DelCallStep ==
    \/ \E fail \in BOOLEAN : DeleteWorkspace_FetchFiles(fail)
    \/ \E fail \in BOOLEAN, denied \in BOOLEAN : DeleteWorkspace_FileVersions(fail, denied)
    \/ \E fail \in BOOLEAN : DeleteWorkspace_Files(fail)
    \/ \E fail \in BOOLEAN, denied \in BOOLEAN : DeleteWorkspace_Chat(fail, denied)
    \/ \E fail \in BOOLEAN : DeleteWorkspace_Activity(fail)
    \/ \E fail \in BOOLEAN : DeleteWorkspace_Invitations(fail)
    \/ \E fail \in BOOLEAN : DeleteWorkspace_Requests(fail)
    \/ \E fail \in BOOLEAN : DeleteWorkspace_Collaborators(fail)
    \/ \E fail \in BOOLEAN : DeleteWorkspace_Workspace(fail)
    \/ \E fail \in BOOLEAN, denied \in BOOLEAN : DeleteFile_Versions(fail, denied)
    \/ \E fail \in BOOLEAN : DeleteFile_File(fail)

NextDel ==
    \/ \E u \in Users, w \in AllWorkspaces, fail \in BOOLEAN :
          DeleteWorkspace_Check(u, w, fail)
    \/ \E u \in Users, f \in AllFiles, w \in AllWorkspaces, fail \in BOOLEAN :
          DeleteFile_Check(u, f, w, fail)
    \/ DelCallStep
    \/ \E u \in Users, w \in AllWorkspaces : sendMessage(u, w)
    \/ \E u \in Users, f \in Files : saveVersion(u, f)

\* roles the Invite Member dialog offers
InvitableRoles == {"editor", "viewer"}

\* both workspaces populated: w1 of alice with collaborator bob, a
\* file with one version, a chat message, an activity entry, an accepted
\* invitation and a membership request; w2 of bob with a file and a message
InitDel ==
    /\ now = 0
    /\ ticks = 0
    /\ invitations = {[NewInvitation(1, "w1", "alice", UserEmail("bob"), "editor")
                          EXCEPT !.status = "accepted", !.invitee_id = "bob",
                                 !.expires_at = InviteTtlDays]}
    /\ \E r \in InvitableRoles :
          collaborators = {[workspace_id |-> "w1", user_id |-> "alice", role |-> "owner"],
                           [workspace_id |-> "w1", user_id |-> "bob", role |-> r],
                           [workspace_id |-> "w2", user_id |-> "bob", role |-> "owner"]}
    /\ nextInvId = 2
    /\ sess = [s \in Sessions |-> IdleSess(IF s = "s1" THEN "alice" ELSE "bob", {}, NoInv)]
    /\ lastDone = NoneDone
    /\ failures = 0
    /\ files = [f \in AllFiles |-> InitialText]
    /\ file_versions = {[id |-> 1, file_id |-> "f1", content |-> InitialText,
                         version_number |-> ClockStart, created_by |-> "alice",
                         created_at |-> 1],
                        [id |-> 2, file_id |-> "f2", content |-> InitialText,
                         version_number |-> ClockStart, created_by |-> "bob",
                         created_at |-> 2]}
    /\ versionSeq = 2
    /\ clock = ClockStart
    /\ ed = [s \in Sessions |-> InitEd]
    /\ docDone = NoDocDone
    /\ hist = NoHist
    /\ acl = NoAcl
    /\ workspaces = {WorkspaceRow(w) : w \in AllWorkspaces}
    /\ chat_messages = {ChildRow(1, "w1"), ChildRow(2, "w2")}
    /\ workspace_activity = {ChildRow(1, "w1")}
    /\ workspace_requests = {ChildRow(1, "w1")}
    /\ del = NoDel
    /\ delDone = NoDelDone
    /\ users = Users
    /\ fx = [s \in Sessions |-> NoFx]
    /\ fxDone = NoFxDone
    /\ diffView = NoDiffView

SpecDel == InitDel /\ [][NextDel]_vars

(***************************************************************************)
(* Claims about deleteWorkspace and deleteFile                             *)
(***************************************************************************)
\* every table of the store
StoreTables ==
    <<workspaces, files, file_versions, chat_messages, workspace_activity,
      invitations, workspace_requests, collaborators>>

\* the caller of call c lacks the role the operation asks for: not the
\* owner_id for deleteWorkspace; neither the owner_id nor a collaborator with
\* role owner or editor for deleteFile
LacksRole(c) ==
    IF c.op = "deleteWorkspace"
       THEN ~(\E r \in workspaces : r.id = c.w /\ r.owner_id = c.user)
       ELSE /\ ~(\E r \in workspaces : r.id = c.w /\ r.owner_id = c.user)
            /\ ~(\E k \in collaborators : /\ k.workspace_id = c.w /\ k.user_id = c.user
                                          /\ k.role \in {"owner", "editor"})

\* C12: a delete call of an actor who lacks the required role returns a
\* failure from its permission check, never goes on to a deletion step, and
\* the step leaves every table of the store as it was
C12_DeniedLeavesStore ==
    [][(del.op = "none" /\ del'.calls = del.calls + 1) =>
          /\ (del'.op # "none") => ~LacksRole(del')
          /\ (del'.op = "none" /\ LacksRole(delDone')) =>
                /\ ~delDone'.success
                /\ StoreTables' = StoreTables]_vars

\* bob, an editor of w1, called deleteWorkspace on it and was refused while
\* the workspace still has its file
C12_Witness ==
    /\ delDone.op = "deleteWorkspace"
    /\ delDone.user = "bob" /\ delDone.w = "w1"
    /\ ~delDone.success /\ delDone.step = "permission"
    /\ "f1" \in DOMAIN files

\* the first n steps of deleteWorkspace
StepsUpTo(n) == SubSeq(DeletionSteps, 1, n)

\* no row references a parent row that is gone
NoDanglingReference ==
    /\ \A v \in file_versions : v.file_id \in DOMAIN files
    /\ \A g \in DOMAIN files : \E r \in workspaces : r.id = FileWorkspace(g)
    /\ \A t \in {chat_messages, workspace_activity, workspace_requests,
                 invitations, collaborators} :
          \A x \in t : \E r \in workspaces : r.id = x.workspace_id

\* C13: the deletion steps a deleteWorkspace call has made are an initial
\* part of the order file versions, files, chat messages, activity log,
\* invitations, membership requests, collaborators, workspace row, and in
\* every state, in the middle of a call and after a failed step included, no
\* row references a deleted file or workspace
C13_OrderedNoDangling ==
    /\ del.op = "deleteWorkspace" => del.steps = StepsUpTo(Len(del.steps))
    /\ delDone.op = "deleteWorkspace" => delDone.steps = StepsUpTo(Len(delDone.steps))
    /\ NoDanglingReference

\* a deleteWorkspace call is past its files step with the workspace row
\* still there, and a version row was inserted while it ran
C13_Witness ==
    /\ del.op = "deleteWorkspace" /\ del.w = "w1"
    /\ del.pc = "chat messages"
    /\ versionSeq > 2
    /\ \E r \in workspaces : r.id = "w1"

\* FileExplorer.fetchWorkspaces: workspaces joined with the user's
\* collaborators rows (collaborators!inner, collaborators.user_id = user.id)
fetchWorkspaces(u) ==
    {r.id : r \in {x \in workspaces :
                      /\ RlsWorkspaceSelect(x.id, u)
                      /\ \E c \in collaborators :
                            c.workspace_id = x.id /\ c.user_id = u}}

\* C14: after a deleteWorkspace call stopped at a failed deletion step, the
\* result names that step, exactly the steps before it were made, the
\* workspace row exists and the owner's workspace list still shows it
C14_FailureKeepsWorkspaceVisible ==
    \A k \in 1..Len(DeletionSteps) :
        ( /\ del.op = "none"
          /\ delDone.op = "deleteWorkspace"
          /\ ~delDone.success
          /\ delDone.step = DeletionSteps[k] )
        => /\ delDone.steps = StepsUpTo(k - 1)
           /\ \E r \in workspaces : r.id = delDone.w
           /\ delDone.w \in fetchWorkspaces(delDone.user)

\* C15: a deleteWorkspace call of the owner that follows a failed one and
\* meets no store error reports success, and the workspace row and every
\* row depending on it are gone
C15_RetrySucceeds ==
    ( /\ delDone.op = "deleteWorkspace"
      /\ delDone.retry
      /\ delDone.clean )
    => /\ delDone.success
       /\ ~(\E r \in workspaces : r.id = delDone.w)
       /\ \A g \in DOMAIN files : FileWorkspace(g) # delDone.w
       /\ \A v \in file_versions : FileWorkspace(v.file_id) # delDone.w
       /\ \A t \in {chat_messages, workspace_activity, workspace_requests,
                    invitations, collaborators} :
             \A x \in t : x.workspace_id # delDone.w

\* the second call of alice on w1 succeeded after her first one had failed
C15_Witness ==
    /\ delDone.op = "deleteWorkspace"
    /\ delDone.user = "alice" /\ delDone.w = "w1"
    /\ delDone.retry /\ delDone.clean /\ delDone.success
    /\ failures = 1
    /\ \E r \in workspaces : r.id = "w2"

(***************************************************************************)
(* Claims about resolving and creating invitations                         *)
(***************************************************************************)
\* C16: resolving a token answers not found when no row has the token or the
\* row is not pending, and leaves the table alone; for a pending row past
\* its expires_at it answers expired and the row's status becomes expired;
\* otherwise it answers with the invitation
C16_ResolveByToken ==
    [][(lastDone'.op = "resolve" /\ lastDone' # lastDone) =>
          LET rows == {i \in invitations : i.invitation_token = lastDone'.id}
              pending == {i \in rows : i.status = "pending"}
          IN  IF pending = {}
                 THEN lastDone'.res = "not_found" /\ invitations' = invitations
                 ELSE \A i \in pending :
                         IF i.expires_at < now
                            THEN /\ lastDone'.res = "expired"
                                 /\ \E j \in invitations' :
                                       j.id = i.id /\ j.status = "expired"
                            ELSE lastDone'.res = "ok" /\ invitations' = invitations]_vars

\* every address the Invite Member dialog can be given belongs to a user
\* with a collaborators row in w1
InviteeIsCollaborator ==
    \A e \in InviteEmailInputs :
       \E u \in Users :
          /\ UserEmail(u) = ToLowerCase(e)
          /\ \E c \in collaborators : c.workspace_id = "w1" /\ c.user_id = u

C18_DuplicateOrReplace ==
    [][\A s \in Sessions :
          /\ (sess[s].pc = "si_check" /\ sess'[s].pc # "si_check") =>
                \A i \in RowsByKey(sess[s].inv.workspace_id, sess[s].email) :
                    /\ (i.status = "pending" /\ ~(i.expires_at < now)) =>
                          /\ sess'[s].pc = "idle"
                          /\ lastDone'.res = "duplicate"
                          /\ invitations' = invitations
                    /\ (i.status # "pending") => sess'[s].pc = "si_delete"
          /\ (sess[s].pc = "si_insert" /\ sess[s].inv.id # 0 /\ sess'[s].pc = "idle") =>
                /\ lastDone'.res \in {"ok", "ok_email_failed"}
                /\ \E j \in invitations' :
                      /\ j.status = "pending"
                      /\ j.id # sess[s].inv.id
                      /\ {x \in invitations' :
                             /\ x.workspace_id = sess[s].inv.workspace_id
                             /\ x.invitee_email = sess[s].email} = {j}]_vars

\* the pending rows a /invite/<token> link resolves to
ResolvableByToken(rows, token) ==
    {i \in rows : i.invitation_token = token /\ i.status = "pending"}

\* C19: when the email of a sendInvitation is not delivered, the row the call
\* inserted stays in the table, pending and unexpired, and its token link
\* resolves to it; the call ends with the "email failed, but invitation
\* created" outcome, and a call that inserted a row never ends as a failed
\* creation
C19_EmailFailureKeepsInvitation ==
    [][\A s \in Sessions :
          (sess[s].pc = "si_insert" /\ sess'[s].pc = "idle") =>
              /\ (lastDone'.res = "ok_email_failed") =>
                    /\ \A i \in invitations : i \in invitations'
                    /\ \E i \in invitations' :
                          /\ i.id = lastDone'.id
                          /\ i.id \notin {j.id : j \in invitations}
                          /\ i.status = "pending"
                          /\ ~(i.expires_at < now')
                          /\ ResolvableByToken(invitations', i.invitation_token) = {i}
              /\ (invitations' # invitations) =>
                    lastDone'.res \in {"ok", "ok_email_failed"}]_vars

\* a sendInvitation whose email failed left its pending row in the table
C19_Witness ==
    /\ lastDone.op = "send"
    /\ lastDone.res = "ok_email_failed"
    /\ \E i \in invitations : i.id = lastDone.id /\ i.status = "pending"

\* C20: an invitation row is only ever inserted by the owner of its
\* workspace, and a create or send call of any other user ends with
\* "permission denied"
C20_OnlyOwnerInvites ==
    [][/\ \A i \in invitations' :
             (i.id \notin {j.id : j \in invitations}) =>
                 i.inviter_id = WorkspaceOwner(i.workspace_id)
       /\ \A s \in Sessions :
             ( /\ sess[s].user # WorkspaceOwner("w1")
               /\ sess'[s] # sess[s] \/ lastDone' # lastDone
               /\ lastDone'.op \in {"create", "send"}
               /\ lastDone'.user = sess[s].user
               /\ lastDone' # lastDone ) =>
                 lastDone'.res = "permission_denied"]_vars

\* C21: for each file the version_number values of its file_versions rows
\* are pairwise distinct and grow with the order in which the store created
\* the rows, also when two sessions save the file within the same second
C21_VersionNumbersIncrease ==
    \A v \in file_versions : \A w \in file_versions :
        (v.file_id = w.file_id /\ v.created_at < w.created_at) =>
            v.version_number < w.version_number

\* C22: whenever no call is in progress, a user with a collaborators row in
\* a workspace has no pending invitation for that workspace and their email;
\* every accept path retires the invitation, also when a write of it fails
C22_CollaboratorHasNoPendingInvitation ==
    (\A s \in Sessions : sess[s].pc = "idle") =>
        \A c \in collaborators : \A i \in invitations :
            ( /\ i.workspace_id = c.workspace_id
              /\ ToLowerCase(i.invitee_email) = ToLowerCase(UserEmail(c.user_id)) ) =>
                i.status # "pending"

\* C23: a notification of another session's write that the handler treats as
\* an external change leaves the session flagged as having unreviewed
\* external changes, and the flag raised by it is cleared by nothing but the
\* response of a save of the flagged session
C23_ExternalFlagSticky ==
    [][\A s \in Sessions :
          /\ ( /\ ed[s].inbox # <<>>
               /\ Head(ed[s].inbox).by # s
               /\ ed'[s] # ed[s]
               /\ docDone' = [op |-> "notify", sess |-> s, ver |-> 0, res |-> "external"] ) =>
                 ed'[s].hasExternalChanges
          /\ ( /\ docDone = [op |-> "notify", sess |-> s, ver |-> 0, res |-> "external"]
               /\ ed[s].hasExternalChanges
               /\ ed'[s].file.id = ed[s].file.id
               /\ ed[s].pc # "saving" ) =>
                 ed'[s].hasExternalChanges]_vars

C26_OneSubscriptionPerScope ==
    [][\A s \in Sessions :
          /\ Cardinality(ed'[s].channels) <= 1
          /\ \A c \in ed'[s].channels : c.id = ed'[s].file.id
          /\ ed'[s].historyChannels \subseteq {ed'[s].file.id}
          /\ (Handles(s) /\ Head(ed[s].inbox).file # ed[s].file.id) =>
                (SameBuffers(s) /\ ed'[s].file = ed[s].file)
          /\ \A q \in ed[s].inflight :
                ( /\ q.cause = "event"
                  /\ q \notin ed'[s].inflight
                  /\ q.file # ed[s].file.id
                  /\ ed'[s].file = ed[s].file ) =>
                    ed'[s].versions = ed[s].versions]_vars

(***************************************************************************)
(* Sign-up: a row of public.users is created for a new account, and the    *)
(* AFTER INSERT trigger on_user_created_accept_invitations runs            *)
(***************************************************************************)
\* variant of the trigger that also accepts the invitation
auto_accept_invitations_Accepting(rows, u) ==
    {IF i.invitee_email = UserEmail(u) /\ i.invitee_id = "null" /\ i.status = "pending"
        THEN [i EXCEPT !.invitee_id = u, !.status = "accepted"]
        ELSE i : i \in rows}

\* UPDATE workspace_invitations SET invitee_id = NEW.id
\*  WHERE invitee_email = NEW.email AND invitee_id IS NULL AND status = 'pending'
auto_accept_invitations(rows, u) ==
    {IF i.invitee_email = UserEmail(u) /\ i.invitee_id = "null" /\ i.status = "pending"
        THEN [i EXCEPT !.invitee_id = u]
        ELSE i : i \in rows}

\* handle_new_user: INSERT INTO public.users for the new account, then the trigger
handle_new_user(u) ==
    /\ u \notin users
    /\ users' = users \cup {u}
    /\ invitations' = auto_accept_invitations(invitations, u)
    /\ lastDone' = NoneDone
    /\ UNCHANGED <<docVars, acl, workspaces, chat_messages, workspace_activity,
                   workspace_requests, del, delDone, fx, fxDone, diffView>>
    /\ UNCHANGED <<now, ticks, collaborators, nextInvId, sess, failures>>

\* one step of session s while accounts are still being created: the owner's
\* dialog, the invitation service, the pending list and the invite page
UserStep(s) ==
    \/ FetchPendingInvitations(s)
    \/ \E t \in Tokens : FetchInvitation(s, t)
    \/ \E e \in InviteEmailInputs, r \in InviteRoles : SendInvitation_CheckCollaborator(s, e, r)
    \/ SendInvitation_CheckExisting(s)
    \/ SendInvitation_DeleteOld(s)
    \/ \E sent \in BOOLEAN : SendInvitation_Insert(s, sent)
    \/ \E e \in InviteEmailInputs, r \in InviteRoles : CreateInvitation(s, e, r)
    \/ AcceptIP_Update(s)
    \/ \E f \in BOOLEAN : AcceptIP_Insert(s, f)

\* a session acts once its user has an account
NextUser ==
    \/ \E s \in Sessions : sess[s].user \in users /\ UserStep(s)
    \/ \E u \in Users : handle_new_user(u)
    \/ \E d \in TickSteps : Tick(d)
    \/ CleanupExpiredInvitations

\* alice owns w1; bob has not signed up yet
InitUser ==
    /\ now = 0
    /\ ticks = 0
    /\ invitations = {}
    /\ collaborators = {[workspace_id |-> "w1", user_id |-> "alice", role |-> "owner"]}
    /\ nextInvId = 1
    /\ sess = [s \in Sessions |-> IdleSess(IF s = "s1" THEN "alice" ELSE "bob", {}, NoInv)]
    /\ lastDone = NoneDone
    /\ failures = 0
    /\ DocAtRest
    /\ acl = NoAcl
    /\ workspaces = {WorkspaceRow(w) : w \in AllWorkspaces}
    /\ chat_messages = {}
    /\ workspace_activity = {}
    /\ workspace_requests = {}
    /\ del = NoDel
    /\ delDone = NoDelDone
    /\ users = {"alice"}
    /\ fx = [s \in Sessions |-> NoFx]
    /\ fxDone = NoFxDone
    /\ diffView = NoDiffView

SpecUser == InitUser /\ [][NextUser]_vars

SameEmail(a, b) == ToLowerCase(a) = ToLowerCase(b)

\* the pending, unexpired invitations addressed to u when letter case is ignored
PendingRowsIgnoringCase(rows, u, t) ==
    {Snap(i) : i \in {j \in rows : /\ SameEmail(j.invitee_email, UserEmail(u))
                                   /\ j.status = "pending"
                                   /\ j.expires_at > t}}

\* C27: emails that differ only in letter case are treated as the same email
\* by every invitation operation: the dialog's already-member and duplicate
\* checks, the pending-invitation list, the association made at sign-up, and
\* the invitee check made when an invitation is accepted on the invite page.
C27_EmailCaseIgnored ==
    [][/\ \A s \in Sessions :
            \* the list shows every live invitation for the user's address
            /\ FetchPendingInvitations(s) =>
                  sess'[s].list = PendingRowsIgnoringCase(invitations, sess[s].user, now)
            \* the dialog refuses a member's address
            /\ (sess[s].pc = "idle" /\ sess'[s].pc = "si_check") =>
                  ~\E u \in users : SameEmail(UserEmail(u), sess'[s].email)
                                    /\ IsCollaborator("w1", u)
            \* the dialog adds no second live invitation for an address
            /\ (sess[s].pc = "si_insert" /\ lastDone' # lastDone /\ lastDone'.res = "ok") =>
                  ~\E i \in invitations :
                        /\ i.workspace_id = sess[s].inv.workspace_id
                        /\ SameEmail(i.invitee_email, sess[s].email)
                        /\ i.status = "pending" /\ i.expires_at > now
            \* the invite page refuses only another person's invitation
            /\ (/\ sess[s].pc = "idle" /\ sess[s].page # NoInv
                /\ lastDone' # lastDone /\ lastDone'.op = "accept"
                /\ lastDone'.res = "email_mismatch" /\ sess'[s].pc = "idle") =>
                  ~SameEmail(sess[s].page.invitee_email, UserEmail(sess[s].user))
       \* sign-up associates every pending invitation for the address
       /\ \A u \in users' \ users : \A i \in invitations :
             (/\ SameEmail(i.invitee_email, UserEmail(u))
              /\ i.invitee_id = "null" /\ i.status = "pending") =>
                \E j \in invitations' : j.id = i.id /\ j.invitee_id = u]_vars

\* C28: a keystroke leaves the external-changes flag as it was (it only makes
\* the buffer differ from the saved content), and the flag goes up only in a
\* step that handles a change notification caused by someone else's write.
C28_KeystrokeNeverFlagsExternal ==
    [][\A s \in Sessions :
          /\ (hist'.edits # hist.edits /\ ed'[s].content # ed[s].content) =>
                ed'[s].hasExternalChanges = ed[s].hasExternalChanges
          /\ (~ed[s].hasExternalChanges /\ ed'[s].hasExternalChanges) =>
                /\ ed[s].inbox # <<>>
                /\ Head(ed[s].inbox).by # s
                /\ ed'[s].inbox = Tail(ed[s].inbox)]_vars

(***************************************************************************)
(* WorkspaceManagement: removing a collaborator and leaving a workspace    *)
(***************************************************************************)
\* the Trash button, rendered for the owner next to every other member:
\* delete().eq('id', collaboratorId), toast, fetchCollaborators()
removeCollaborator(s, c, fail) ==
    LET r == sess[s]
        b == [r EXCEPT !.op = "remove", !.path = "wm",
                       !.inv = [NoInv EXCEPT !.workspace_id = c.workspace_id]]
    IN  /\ r.pc = "idle"
        /\ c \in collaborators
        /\ r.user = WorkspaceOwner(c.workspace_id)
        /\ c.user_id # r.user
        /\ Inject(fail)
        /\ IF fail
              THEN /\ UNCHANGED collaborators
                   /\ Finish(s, b, "error", r.list, r.page)
              ELSE /\ collaborators' = IF RlsOwner(c.workspace_id, r.user)
                                          THEN collaborators \ {c} ELSE collaborators
                   /\ Finish(s, b, "ok", r.list, r.page)
        /\ UNCHANGED <<docVars, acl, wsVars, now, ticks, invitations, nextInvId>>

\* the Leave button, rendered for a member who is not the owner on their own
\* row: delete().eq('workspace_id', w).eq('user_id', user.id); the store
\* applies the delete to the rows the collaborators policy lets the caller manage
leaveWorkspace(s, w, fail) ==
    LET r == sess[s]
        b == [r EXCEPT !.op = "leave", !.path = "wm",
                       !.inv = [NoInv EXCEPT !.workspace_id = w]]
    IN  /\ r.pc = "idle"
        /\ r.user # WorkspaceOwner(w)
        /\ IsCollaborator(w, r.user)
        /\ Inject(fail)
        /\ IF fail
              THEN /\ UNCHANGED collaborators
                   /\ Finish(s, b, "error", r.list, r.page)
              ELSE /\ collaborators' = IF RlsOwner(w, r.user)
                                          THEN collaborators \ CollaboratorRows(collaborators, w, r.user)
                                          ELSE collaborators
                   /\ Finish(s, b, "ok", r.list, r.page)
        /\ UNCHANGED <<docVars, acl, wsVars, now, ticks, invitations, nextInvId>>

\* one step of session s in the workspace management view
MemberStep(s) ==
    \/ FetchPendingInvitations(s)
    \/ \E e \in InviteEmailInputs, r \in InviteRoles : SendInvitation_CheckCollaborator(s, e, r)
    \/ SendInvitation_CheckExisting(s)
    \/ SendInvitation_DeleteOld(s)
    \/ \E sent \in BOOLEAN : SendInvitation_Insert(s, sent)
    \/ \E i \in sess[s].list : AcceptWM_Update(s, i)
    \/ AcceptWM_Fetch(s)
    \/ \E f \in BOOLEAN : AcceptWM_Insert(s, f)
    \/ \E i \in sess[s].list : DeclineWM(s, i)
    \/ \E c \in collaborators, f \in BOOLEAN : removeCollaborator(s, c, f)
    \/ \E f \in BOOLEAN : leaveWorkspace(s, "w1", f)

NextMember ==
    \/ \E s \in Sessions : MemberStep(s)
    \/ \E d \in TickSteps : Tick(d)
    \/ CleanupExpiredInvitations

SpecMember == InitInv /\ [][NextMember]_vars

\* C29: once a collaborator row is gone (removed by the owner, or the member
\* left), the table holds no invitation of that workspace, in any status,
\* whose invitee_email is the removed user's email or whose invitee_id is
\* the removed user.
C29_RemovalClearsInvitations ==
    [][\A c \in collaborators \ collaborators' :
          ~\E i \in invitations' :
                /\ i.workspace_id = c.workspace_id
                /\ \/ i.invitee_email = UserEmail(c.user_id)
                   \/ i.invitee_id = c.user_id]_vars

(***************************************************************************)
(* FileExplorer: createWorkspace (two versions in the repository) and the  *)
(* owner-row repair populateExistingWorkspaces run when the view mounts    *)
(***************************************************************************)
MaxLoads == 2           \* mounts of the FileExplorer view per session

FxUser(s) == sess[s].user

OwnerRow(w, u) == [workspace_id |-> w, user_id |-> u, role |-> "owner"]

\* the call of session s returns; shown is the workspace list it leaves
FxReturn(s, c, res, shown) ==
    /\ fxDone' = [op |-> c.op, sess |-> s, user |-> FxUser(s), w |-> c.w,
                  owned |-> c.owned, res |-> res, clean |-> c.clean]
    /\ fx' = [fx EXCEPT ![s] = [NoFx EXCEPT !.shown = shown, !.loads = c.loads]]

FxGoto(s, c, pc) ==
    /\ fx' = [fx EXCEPT ![s] = [c EXCEPT !.pc = pc]]
    /\ UNCHANGED fxDone

\* what no FileExplorer call touches
fxOther == <<docVars, acl, now, ticks, invitations, nextInvId, sess, lastDone,
             chat_messages, workspace_activity, workspace_requests, del, delDone, users,
             diffView>>

\* INSERT of collaborators rows in one statement: policy "Workspace owners can
\* manage collaborators", the foreign key to workspaces and UNIQUE(workspace_id,
\* user_id) are checked for every row, and one refusal rejects the statement
InsertOwnerRows(ws, u) ==
    IF \A w \in ws : RlsOwner(w, u) /\ ~UniqueCollaboratorViolation(w, u)
       THEN collaborators \cup {OwnerRow(w, u) : w \in ws}
       ELSE collaborators

\* createWorkspace of useFileHistory.ts: insert of the workspaces row
CreateWorkspace_Insert(s, w, fail) ==
    LET c == [fx[s] EXCEPT !.op = "createWorkspace", !.w = w, !.clean = ~fail]
    IN  /\ fx[s].pc = "idle"
        /\ ~\E r \in workspaces : r.id = w
        /\ Inject(fail)
        /\ IF fail
              THEN /\ UNCHANGED workspaces
                   /\ FxReturn(s, c, "error", fx[s].shown)
              ELSE /\ workspaces' = workspaces \cup {[id |-> w, owner_id |-> FxUser(s)]}
                   /\ FxGoto(s, c, "cw_collaborator")
        /\ UNCHANGED <<fxOther, collaborators>>

\* "Add creator as owner collaborator": an error is logged and ignored
CreateWorkspace_Collaborator(s, fail) ==
    LET c == fx[s]
    IN  /\ c.pc = "cw_collaborator"
        /\ Inject(fail)
        /\ collaborators' = IF fail THEN collaborators
                                    ELSE InsertOwnerRows({c.w}, FxUser(s))
        /\ FxGoto(s, [c EXCEPT !.clean = @ /\ ~fail], "cw_fetch")
        /\ UNCHANGED <<fxOther, workspaces>>

\* await fetchWorkspaces(), then the toast "Workspace created"
CreateWorkspace_Fetch(s) ==
    /\ fx[s].pc = "cw_fetch"
    /\ FxReturn(s, fx[s], "ok", fetchWorkspaces(FxUser(s)))
    /\ UNCHANGED <<fxOther, workspaces, collaborators, failures>>

\* createWorkspace of src/unnamed/part_003: the workspaces insert alone; on
\* success the new row is put in front of the list and the toast is shown
createWorkspace_RowOnly(s, w, fail) ==
    LET c == [fx[s] EXCEPT !.op = "createWorkspace", !.w = w, !.clean = ~fail]
    IN  /\ fx[s].pc = "idle"
        /\ ~\E r \in workspaces : r.id = w
        /\ Inject(fail)
        /\ IF fail
              THEN /\ UNCHANGED workspaces
                   /\ FxReturn(s, c, "error", fx[s].shown)
              ELSE /\ workspaces' = workspaces \cup {[id |-> w, owner_id |-> FxUser(s)]}
                   /\ FxReturn(s, c, "ok", fx[s].shown \cup {w})
        /\ UNCHANGED <<fxOther, collaborators>>

\* populateExistingWorkspaces, started by the mount effect:
\* select id, name from workspaces where owner_id = user.id
Populate_Owned(s, fail) ==
    LET owned == {r.id : r \in {x \in workspaces : x.owner_id = FxUser(s)}}
        c == [fx[s] EXCEPT !.op = "populate", !.loads = @ + 1, !.clean = ~fail,
                           !.owned = IF fail THEN {} ELSE owned]
    IN  /\ fx[s].pc = "idle"
        /\ fx[s].loads < MaxLoads
        /\ Inject(fail)
        /\ FxGoto(s, c, IF fail \/ owned = {} THEN "pw_fetch" ELSE "pw_collaborators")
        /\ UNCHANGED <<fxOther, workspaces, collaborators>>

\* select workspace_id from collaborators where user_id = user.id and
\* workspace_id in (owned); the owned workspaces not found are to be populated
Populate_Collaborators(s, fail) ==
    LET c == fx[s]
        existing == {k.workspace_id : k \in {x \in collaborators :
                          x.user_id = FxUser(s) /\ x.workspace_id \in c.owned}}
        todo == c.owned \ existing
    IN  /\ c.pc = "pw_collaborators"
        /\ Inject(fail)
        /\ FxGoto(s, [c EXCEPT !.clean = @ /\ ~fail,
                               !.toPopulate = IF fail THEN {} ELSE todo],
                  IF fail \/ todo = {} THEN "pw_fetch" ELSE "pw_insert")
        /\ UNCHANGED <<fxOther, workspaces, collaborators>>

\* insert(collaboratorEntries): one statement for all missing rows; an error
\* is logged
Populate_Insert(s, fail) ==
    LET c == fx[s]
    IN  /\ c.pc = "pw_insert"
        /\ Inject(fail)
        /\ collaborators' = IF fail THEN collaborators
                                    ELSE InsertOwnerRows(c.toPopulate, FxUser(s))
        /\ FxGoto(s, [c EXCEPT !.clean = @ /\ ~fail], "pw_fetch")
        /\ UNCHANGED <<fxOther, workspaces>>

\* fetchWorkspaces() at the end of every path of the repair
Populate_Fetch(s) ==
    /\ fx[s].pc = "pw_fetch"
    /\ FxReturn(s, fx[s], "done", fetchWorkspaces(FxUser(s)))
    /\ UNCHANGED <<fxOther, workspaces, collaborators, failures>>

FxStep(s) ==
    \/ \E w \in AllWorkspaces, f \in BOOLEAN : CreateWorkspace_Insert(s, w, f)
    \/ \E f \in BOOLEAN : CreateWorkspace_Collaborator(s, f)
    \/ CreateWorkspace_Fetch(s)
    \/ \E w \in AllWorkspaces, f \in BOOLEAN : createWorkspace_RowOnly(s, w, f)
    \/ \E f \in BOOLEAN : Populate_Owned(s, f)
    \/ \E f \in BOOLEAN : Populate_Collaborators(s, f)
    \/ \E f \in BOOLEAN : Populate_Insert(s, f)
    \/ Populate_Fetch(s)

NextFx == \E s \in Sessions : FxStep(s)

\* the store before any workspace exists, no call in flight
FxAtRest ==
    /\ now = 0
    /\ ticks = 0
    /\ invitations = {}
    /\ collaborators = {}
    /\ nextInvId = 1
    /\ lastDone = NoneDone
    /\ failures = 0
    /\ files = [f \in {} |-> InitialText]
    /\ file_versions = {}
    /\ versionSeq = 0
    /\ clock = ClockStart
    /\ ed = [s \in Sessions |-> InitEd]
    /\ docDone = NoDocDone
    /\ hist = NoHist
    /\ acl = NoAcl
    /\ workspaces = {}
    /\ chat_messages = {}
    /\ workspace_activity = {}
    /\ workspace_requests = {}
    /\ del = NoDel
    /\ delDone = NoDelDone
    /\ users = Users
    /\ fx = [s \in Sessions |-> NoFx]
    /\ fxDone = NoFxDone

\* no workspace yet; the sessions belong to one user or to two
InitFx ==
    /\ FxAtRest
    /\ \E f \in SessionUsers : sess = [s \in Sessions |-> IdleSess(f[s], {}, NoInv)]
    /\ diffView = NoDiffView

SpecFx == InitFx /\ [][NextFx]_vars

\* C31: whenever createWorkspace has reported success, the workspaces row it
\* created and an owner row of collaborators for (workspace, creator) both exist.
C31_CreatedWithOwnerRow ==
    (fxDone.op = "createWorkspace" /\ fxDone.res = "ok") =>
        /\ \E r \in workspaces : r.id = fxDone.w /\ r.owner_id = fxDone.user
        /\ OwnerRow(fxDone.w, fxDone.user) \in collaborators

\* C32: when a run of the owner-row repair that met no store error returns,
\* every workspace it found owned by the user has exactly one collaborators
\* row for (workspace, user), also when it is a second run or when another
\* session of the same user is at work at the same time.
C32_RepairLeavesOwnerRows ==
    [][\A s \in Sessions :
          (fx[s].pc = "pw_fetch" /\ fx'[s].pc = "idle" /\ fx[s].clean) =>
             \A w \in fx[s].owned :
                Cardinality(CollaboratorRows(collaborators', w, FxUser(s))) = 1]_vars

\* C33: once a restore by a session has returned (the version's content is in
\* the files row), a save in that session gets past the early returns of
\* saveToDatabase, so that it writes and adds a file_versions row.
C33_SaveAfterRestoreCreatesVersion ==
    (docDone.op = "restore" /\ docDone.res = "ok") =>
        SaveHasChanges(ed[docDone.sess])

(***************************************************************************)
(* GitStyleDiff.generateDiff.  A text is a sequence of characters; a line  *)
(* is a sequence of characters without the newline.                        *)
(***************************************************************************)
MaxLen == 3             \* characters in a text handed to the diff

Newline == "\n"
Chars == {"a", "b", Newline}

TextsUpTo(n) == UNION {[1..k -> Chars] : k \in 0..n}

\* what indexing past the end of an array gives; no line equals it
Undefined == <<"undefined">>

\* String.prototype.split('\n'): the pieces between newlines, at least one
RECURSIVE Split(_)
Split(t) ==
    IF \A k \in 1..Len(t) : t[k] # Newline
       THEN <<t>>
       ELSE LET k == CHOOSE i \in 1..Len(t) :
                        t[i] = Newline /\ \A j \in 1..(i - 1) : t[j] # Newline
            IN  <<SubSeq(t, 1, k - 1)>> \o Split(SubSeq(t, k + 1, Len(t)))

\* lines[i] with i counted from 1
LineAt(lines, i) == IF i <= Len(lines) THEN lines[i] ELSE Undefined

Max(a, b) == IF a >= b THEN a ELSE b

\* variant of the loop body that pushes the added entry before the removed one
DiffEntries_AddedFirst(originalLine, modifiedLine, oldLineNum, newLineNum) ==
    IF originalLine = modifiedLine
       THEN IF originalLine # Undefined
               THEN <<[type |-> "unchanged", content |-> originalLine,
                       oldLineNumber |-> oldLineNum, newLineNumber |-> newLineNum]>>
               ELSE <<>>
       ELSE (IF modifiedLine # Undefined
                THEN <<[type |-> "added", content |-> modifiedLine,
                        newLineNumber |-> newLineNum]>>
                ELSE <<>>)
            \o
            (IF originalLine # Undefined
                THEN <<[type |-> "removed", content |-> originalLine,
                        oldLineNumber |-> oldLineNum]>>
                ELSE <<>>)

\* the entries pushed by one iteration of the loop
DiffEntries(originalLine, modifiedLine, oldLineNum, newLineNum) ==
    IF originalLine = modifiedLine
       THEN IF originalLine # Undefined
               THEN <<[type |-> "unchanged", content |-> originalLine,
                       oldLineNumber |-> oldLineNum, newLineNumber |-> newLineNum]>>
               ELSE <<>>
       ELSE (IF originalLine # Undefined
                THEN <<[type |-> "removed", content |-> originalLine,
                        oldLineNumber |-> oldLineNum]>>
                ELSE <<>>)
            \o
            (IF modifiedLine # Undefined
                THEN <<[type |-> "added", content |-> modifiedLine,
                        newLineNumber |-> newLineNum]>>
                ELSE <<>>)

\* for (i = 0; i < maxLines; i++) with the counters oldLineNum and newLineNum,
\* which advance by the entries pushed; i is counted from 1 here
RECURSIVE DiffLoop(_, _, _, _, _, _, _)
DiffLoop(originalLines, modifiedLines, i, maxLines, oldLineNum, newLineNum, diff) ==
    IF i > maxLines
       THEN diff
       ELSE LET originalLine == LineAt(originalLines, i)
                modifiedLine == LineAt(modifiedLines, i)
                pushed == DiffEntries(originalLine, modifiedLine, oldLineNum, newLineNum)
                olds == Len(SelectSeq(pushed, LAMBDA d : d.type # "added"))
                news == Len(SelectSeq(pushed, LAMBDA d : d.type # "removed"))
            IN  DiffLoop(originalLines, modifiedLines, i + 1, maxLines,
                         oldLineNum + olds, newLineNum + news, diff \o pushed)

\* variant that stops at the end of the shorter text
generateDiff_CommonPrefix(original, modified) ==
    LET originalLines == Split(original)
        modifiedLines == Split(modified)
        minLines == IF Len(originalLines) <= Len(modifiedLines)
                       THEN Len(originalLines) ELSE Len(modifiedLines)
    IN  DiffLoop(originalLines, modifiedLines, 1, minLines, 1, 1, <<>>)

generateDiff(original, modified) ==
    LET originalLines == Split(original)
        modifiedLines == Split(modified)
        maxLines == Max(Len(originalLines), Len(modifiedLines))
    IN  DiffLoop(originalLines, modifiedLines, 1, maxLines, 1, 1, <<>>)

diffOther == <<invVars, docVars, acl, workspaces, chat_messages, workspace_activity,
               workspace_requests, del, delDone, users, fx, fxDone>>

\* the render: diffLines = generateDiff(originalContent, newContent)
GitStyleDiff_Render ==
    /\ diffView.pc = "props"
    /\ diffView' = [diffView EXCEPT !.pc = "rendered",
                       !.diffLines = generateDiff(diffView.originalContent,
                                                  diffView.newContent)]
    /\ UNCHANGED diffOther

NextDiff == GitStyleDiff_Render

\* the version history panel mounts the component with a version's content
\* and the editor's content
InitDiff ==
    /\ FxAtRest
    /\ sess = [s \in Sessions |-> IdleSess(IF s = "s1" THEN "alice" ELSE "bob", {}, NoInv)]
    /\ \E o \in TextsUpTo(MaxLen), m \in TextsUpTo(MaxLen) :
          diffView = [pc |-> "props", originalContent |-> o, newContent |-> m,
                      diffLines |-> <<>>]

SpecDiff == InitDiff /\ [][NextDiff]_vars

\* what the line-by-line rule prescribes for position i of the two line lists
ExpectedAt(oldLines, newLines, i) ==
    IF i <= Len(oldLines) /\ i <= Len(newLines)
       THEN IF oldLines[i] = newLines[i]
               THEN <<[type |-> "unchanged", content |-> oldLines[i],
                       oldLineNumber |-> i, newLineNumber |-> i]>>
               ELSE <<[type |-> "removed", content |-> oldLines[i], oldLineNumber |-> i],
                      [type |-> "added", content |-> newLines[i], newLineNumber |-> i]>>
       ELSE IF i <= Len(oldLines)
               THEN <<[type |-> "removed", content |-> oldLines[i], oldLineNumber |-> i]>>
               ELSE <<[type |-> "added", content |-> newLines[i], newLineNumber |-> i]>>

RECURSIVE ExpectedUpTo(_, _, _)
ExpectedUpTo(oldLines, newLines, n) ==
    IF n = 0 THEN <<>>
             ELSE ExpectedUpTo(oldLines, newLines, n - 1) \o ExpectedAt(oldLines, newLines, n)

\* C34: the diff is made position by position: equal lines give one unchanged
\* entry with the old and the new line number, different lines give a removed
\* entry directly followed by an added entry, and a position that exists in
\* one text only gives just the removed or just the added entry.
C34_LineByLineDiff ==
    diffView.pc = "rendered" =>
        LET oldLines == Split(diffView.originalContent)
            newLines == Split(diffView.newContent)
        IN  diffView.diffLines =
                ExpectedUpTo(oldLines, newLines, Max(Len(oldLines), Len(newLines)))

\* a rendered diff with an equal position, a changed position and a position
\* that only the old text has
C34_Witness ==
    /\ diffView.pc = "rendered"
    /\ Len(diffView.diffLines) = 4
    /\ diffView.diffLines[1].type = "unchanged"
    /\ diffView.diffLines[2].type = "removed"
    /\ diffView.diffLines[3].type = "added"
    /\ diffView.diffLines[4].type = "removed"
    /\ diffView.diffLines[4].oldLineNumber = 3

\* the entries that stand for lines of the old text, and of the new text
OldSide(diff) == SelectSeq(diff, LAMBDA d : d.type \in {"unchanged", "removed"})
NewSide(diff) == SelectSeq(diff, LAMBDA d : d.type \in {"unchanged", "added"})

\* C38: in every diff the unchanged and removed entries, in order, are the
\* lines of the old text numbered 1..n, the unchanged and added entries, in
\* order, are the lines of the new text numbered 1..m, and the diff of a text
\* with itself has unchanged entries only.
C38_DiffCoversBothTexts ==
    diffView.pc = "rendered" =>
        LET oldLines == Split(diffView.originalContent)
            newLines == Split(diffView.newContent)
            o == OldSide(diffView.diffLines)
            n == NewSide(diffView.diffLines)
        IN  /\ Len(o) = Len(oldLines)
            /\ \A k \in 1..Len(o) : o[k].content = oldLines[k] /\ o[k].oldLineNumber = k
            /\ Len(n) = Len(newLines)
            /\ \A k \in 1..Len(n) : n[k].content = newLines[k] /\ n[k].newLineNumber = k
            /\ diffView.originalContent = diffView.newContent =>
                  \A k \in 1..Len(diffView.diffLines) :
                      diffView.diffLines[k].type = "unchanged"

\* a rendered diff of a one-line text against a three-line text
C38_Witness ==
    /\ diffView.pc = "rendered"
    /\ Len(Split(diffView.originalContent)) = 1
    /\ Len(Split(diffView.newContent)) = 3
    /\ Len(NewSide(diffView.diffLines)) = 3
    /\ Len(OldSide(diffView.diffLines)) = 1
    /\ \E k \in 1..Len(diffView.diffLines) : diffView.diffLines[k].type = "removed"

(***************************************************************************)
(* Change notifications whose payload carries no content                   *)
(***************************************************************************)
MaxUndecodable == 1     \* notifications without content in a behaviour

\* an UPDATE event of the open file arrives on the session's channel with
\* payload.new lacking content
DeliverUndecodable(s) ==
    LET e == ed[s]
    IN  /\ e.file # NoFile
        /\ Subscribed(e, e.file.id)
        /\ hist.undecodable < MaxUndecodable
        /\ hist' = [hist EXCEPT !.undecodable = @ + 1]
        /\ ed' = [ed EXCEPT ![s].inbox = Append(@, [file |-> e.file.id, content |-> NoContent,
                                                    by |-> "store", kind |-> "undecodable"])]
        /\ docDone' = NoDocDone
        /\ UNCHANGED <<files, file_versions, versionSeq, clock, invVars, acl, wsVars>>

NotifyStep(s) ==
    \/ \E f \in Files : SelectFile(s, f)
    \/ \E c \in Texts : updateContent(s, c)
    \/ SaveToDatabase_Update(s)
    \/ \E keep \in BOOLEAN : SaveToDatabase_Response(s, keep)
    \/ SaveToDatabase_Version(s)
    \/ \E keep \in BOOLEAN : HandleFileChange(s, keep)
    \/ DeliverUndecodable(s)

NextNotify == \E s \in Sessions : NotifyStep(s)

SpecNotify == InitDoc /\ [][NextNotify]_vars

\* C35: a notification whose payload has no string content is dropped: the
\* step that handles it leaves the buffer, the save baseline and
\* lastKnownContent of the session as they were (and the handler goes on to
\* take the notifications that follow).
C35_UndecodableDropped ==
    [][\A s \in Sessions :
          (Handles(s) /\ Head(ed[s].inbox).content = NoContent) =>
             /\ ed'[s].content = ed[s].content
             /\ ed'[s].originalContent = ed[s].originalContent
             /\ ed'[s].lastKnownContent = ed[s].lastKnownContent
             /\ ed'[s].inbox = Tail(ed[s].inbox)]_vars

\* C36: when an accept call has returned, with success or with an error, the
\* invitation it worked on is not left accepted by that user while the user
\* has no collaborators row in the invitation's workspace.
C36_AcceptedImpliesCollaborator ==
    ((\A s \in Sessions : sess[s].pc = "idle") /\ lastDone.op = "accept") =>
        \A i \in RowById(lastDone.id) :
            (i.status = "accepted" /\ i.invitee_id = lastDone.user) =>
                IsCollaborator(i.workspace_id, lastDone.user)

(***************************************************************************)
(* Joining a workspace: the four accept paths, with invitations addressed  *)
(* to a user of the application and to an address that has no account      *)
(***************************************************************************)
JoinEmailInputs == {<<"b", "o">>, <<"c", "o">>}
JoinRoles == {"viewer"}

JoinStep(s) ==
    \/ FetchPendingInvitations(s)
    \/ \E t \in Tokens : FetchInvitation(s, t)
    \/ \E e \in JoinEmailInputs, r \in JoinRoles : CreateInvitation(s, e, r)
    \/ \E i \in sess[s].list : AcceptPI_Update(s, i)
    \/ \E f \in BOOLEAN : AcceptPI_Insert(s, f)
    \/ \E i \in sess[s].list : AcceptWM_Update(s, i)
    \/ AcceptWM_Fetch(s)
    \/ \E f \in BOOLEAN : AcceptWM_Insert(s, f)
    \/ AcceptIP_Update(s)
    \/ \E f \in BOOLEAN : AcceptIP_Insert(s, f)
    \/ \E t \in Tokens : AcceptSvc_Get(s, t)
    \/ AcceptSvc_Check(s)
    \/ \E f \in BOOLEAN : AcceptSvc_Insert(s, f)
    \/ \E f \in BOOLEAN : AcceptSvc_Update(s, f)

NextJoin == \E s \in Sessions : JoinStep(s)

SpecJoin == InitInv /\ [][NextJoin]_vars

LiveStep(s) ==
    \/ \E f \in Files : SelectFile(s, f)
    \/ \E c \in Texts : updateContent(s, c)
    \/ SaveToDatabase_Update(s)
    \/ SaveToDatabase_Response(s, TRUE)
    \/ SaveToDatabase_Version(s)
    \/ HandleFileChange(s, TRUE)

NextLive == \E s \in Sessions : LiveStep(s)

\* both users may write the file
InitLive == InitDoc /\ \A c \in collaborators : c.role \in {"owner", "editor"}

\* setTimeout(saveFile, 30000) of the autosave effect, the awaited responses
\* of saveToDatabase and the channel callback all run without user action
LiveFairness ==
    \A s \in Sessions :
        /\ WF_vars(SaveToDatabase_Update(s))
        /\ WF_vars(SaveToDatabase_Response(s, TRUE))
        /\ WF_vars(SaveToDatabase_Version(s))
        /\ WF_vars(HandleFileChange(s, TRUE))

SpecLive == InitLive /\ [][NextLive]_vars /\ LiveFairness

\* C39: once the keystrokes have stopped, with every save completing and
\* every notification handled, each session that has a file open ends up
\* showing, from some point on, the content stored in the file's row.
C39_EventuallyShowsStored ==
    <>[](\A s \in Sessions :
            ed[s].file # NoFile => ed[s].content = files[ed[s].file.id])
====
